---- MODULE Spec2Model ----
(***************************************************************************)
(* Data Privacy Vault (darrod/genAI): the PII detection, tokenization and  *)
(* reversible-mapping engine of the Express server, modelled as a state    *)
(* machine.  Text is a sequence of one-character strings, so that the      *)
(* regular expressions, String.replace and toLowerCase of the source are   *)
(* computed character by character.  A character outside ASCII is written  *)
(* by its code point, as in "U+00E9".                                      *)
(***************************************************************************)
EXTENDS Integers, Sequences, FiniteSets, TLC

-----------------------------------------------------------------------------
(* Characters and JavaScript string primitives                             *)

LowerSeq ==
  <<"a","b","c","d","e","f","g","h","i","j","k","l","m",
    "n","o","p","q","r","s","t","u","v","w","x","y","z">>

UpperSeq ==
  <<"A","B","C","D","E","F","G","H","I","J","K","L","M",
    "N","O","P","Q","R","S","T","U","V","W","X","Y","Z">>

Lower == {LowerSeq[i] : i \in 1..26}

Upper == {UpperSeq[i] : i \in 1..26}

Digit == {"0","1","2","3","4","5","6","7","8","9"}

\* \s of a JavaScript regular expression (the members a message here can hold)
WhiteSpace == {" ", "\t", "\n"}

\* \w of a JavaScript regular expression without the u flag: ASCII only
WordChar == Lower \cup Upper \cup Digit \cup {"_"}

\* [a-f0-9]
HexChar == Digit \cup {"a","b","c","d","e","f"}

toLowerCaseChar(c) ==
  IF c \in Upper THEN LowerSeq[CHOOSE i \in 1..26 : UpperSeq[i] = c] ELSE c

\* String.prototype.toLowerCase
toLowerCase(s) == [i \in 1..Len(s) |-> toLowerCaseChar(s[i])]

\* The index just after the longest run of characters of class C that starts
\* at index i (i itself when s[i] is not in C): a greedy C* from i.
RECURSIVE RunEnd(_, _, _)
RunEnd(s, i, C) ==
  IF i <= Len(s) /\ s[i] \in C THEN RunEnd(s, i + 1, C) ELSE i

\* \b holds between s[i-1] and s[i]
Boundary(s, i) ==
  LET before == i > 1 /\ i - 1 <= Len(s) /\ s[i - 1] \in WordChar
      after  == i >= 1 /\ i <= Len(s) /\ s[i] \in WordChar
  IN  before # after

\* p occurs in s at index i
OccursAt(s, p, i) ==
  /\ i >= 1
  /\ i + Len(p) - 1 <= Len(s)
  /\ \A k \in 1..Len(p) : s[i + k - 1] = p[k]

\* String.prototype.indexOf, 1-based; 0 when p does not occur in s
IndexOf(s, p) ==
  LET hits == {i \in 1..(Len(s) - Len(p) + 1) : OccursAt(s, p, i)}
  IN  IF hits = {} THEN 0 ELSE CHOOSE i \in hits : \A j \in hits : i <= j

\* String.prototype.includes
Includes(s, p) == IndexOf(s, p) # 0

\* String.prototype.replace(pattern, replacement) with a string pattern: only
\* the first occurrence is replaced; the text is unchanged when there is none.
\* (No token and no stored value holds a "$", so the replacement is literal.)
Replace(s, p, rep) ==
  LET i == IndexOf(s, p)
  IN  IF i = 0 THEN s
      ELSE SubSeq(s, 1, i - 1) \o rep \o SubSeq(s, i + Len(p), Len(s))

\* The number of characters of class C in s
RECURSIVE CountIn(_, _)
CountIn(s, C) ==
  IF s = <<>> THEN 0
  ELSE (IF Head(s) \in C THEN 1 ELSE 0) + CountIn(Tail(s), C)

-----------------------------------------------------------------------------
(* Program constants                                                       *)

\* str.length < 3
NameMinLength == 3

\* The lower and upper limits of digits.length in isValidPhone
PhoneMinDigits == 7

PhoneMaxDigits == 15

\* hash.substring(0, 8)
TokenLength == 8

-----------------------------------------------------------------------------
(* PII_PATTERNS and the validators                                         *)

\* The character classes of PII_PATTERNS.email: [A-Za-z0-9._%+-],
\* [A-Za-z0-9.-] and [A-Z|a-z]
EmailClass ==
  [local  |-> Lower \cup Upper \cup Digit \cup {".", "_", "%", "+", "-"},
   domain |-> Lower \cup Upper \cup Digit \cup {".", "-"},
   tld    |-> Lower \cup Upper \cup {"|"}]

\* PII_PATTERNS.email anchored at index i: the index of the last character of
\* the match, 0 when there is none.  The local part must run up to the "@";
\* the domain is greedy, so the last "." that leaves a top-level part of two
\* or more characters ending at a word boundary is taken, with the longest
\* such top-level part.
EmailMatchEnd(s, i) ==
  LET at == RunEnd(s, i, EmailClass.local)
  IN  IF ~Boundary(s, i) \/ at = i \/ at > Len(s) THEN 0
      ELSE IF s[at] # "@" THEN 0
      ELSE
        LET de   == RunEnd(s, at + 1, EmailClass.domain)
            dots == {p \in (at + 2)..(de - 1) : s[p] = "."}
            ends(p) == {q \in (p + 2)..(RunEnd(s, p + 1, EmailClass.tld) - 1) :
                          Boundary(s, q + 1)}
            ok   == {p \in dots : ends(p) # {}}
        IN  IF ok = {} THEN 0
            ELSE LET p == CHOOSE x \in ok : \A y \in ok : y <= x
                 IN  CHOOSE q \in ends(p) : \A y \in ends(p) : y <= q

\* message.match(PII_PATTERNS.email): the matches of a global scan from i
RECURSIVE EmailScan(_, _)
EmailScan(s, i) ==
  IF i > Len(s) THEN <<>>
  ELSE LET e == EmailMatchEnd(s, i)
       IN  IF e = 0 THEN EmailScan(s, i + 1)
           ELSE <<SubSeq(s, i, e)>> \o EmailScan(s, e + 1)

\* [\d\s\-\(\)]
PhoneClass == Digit \cup WhiteSpace \cup {"-", "(", ")"}

\* PII_PATTERNS.phone anchored at index i.  First alternative: an optional
\* "+" and ten or more characters of the class, greedy; second alternative:
\* ten or more digits between word boundaries.
PhoneMatchEnd(s, i) ==
  LET st == IF s[i] = "+" THEN i + 1 ELSE i
      e  == RunEnd(s, st, PhoneClass)
      d  == RunEnd(s, i, Digit)
  IN  IF e - st >= 10 THEN e - 1
      ELSE IF Boundary(s, i) /\ d - i >= 10 /\ Boundary(s, d) THEN d - 1
      ELSE 0

RECURSIVE PhoneScan(_, _)
PhoneScan(s, i) ==
  IF i > Len(s) THEN <<>>
  ELSE LET e == PhoneMatchEnd(s, i)
       IN  IF e = 0 THEN PhoneScan(s, i + 1)
           ELSE <<SubSeq(s, i, e)>> \o PhoneScan(s, e + 1)

\* [A-Z][a-z]+ at index i: the index of its last character, 0 when none
NameWordEnd(s, i) ==
  IF i <= Len(s) /\ s[i] \in Upper
  THEN LET e == RunEnd(s, i + 1, Lower) IN IF e > i + 1 THEN e - 1 ELSE 0
  ELSE 0

\* (?:\s+[A-Z][a-z]+)*\b after a word that ends at index e: greedy, and a
\* group is given up when no word boundary follows it.
RECURSIVE NameChainEnd(_, _)
NameChainEnd(s, e) ==
  LET ws   == RunEnd(s, e + 1, WhiteSpace)
      nxt  == IF ws > e + 1 THEN NameWordEnd(s, ws) ELSE 0
      more == IF nxt = 0 THEN 0 ELSE NameChainEnd(s, nxt)
  IN  IF more # 0 THEN more
      ELSE IF Boundary(s, e + 1) THEN e ELSE 0

\* PII_PATTERNS.name anchored at index i
NameMatchEnd(s, i) ==
  LET e == NameWordEnd(s, i)
  IN  IF ~Boundary(s, i) \/ e = 0 THEN 0 ELSE NameChainEnd(s, e)

RECURSIVE NameScan(_, _)
NameScan(s, i) ==
  IF i > Len(s) THEN <<>>
  ELSE LET e == NameMatchEnd(s, i)
       IN  IF e = 0 THEN NameScan(s, i + 1)
           ELSE <<SubSeq(s, i, e)>> \o NameScan(s, e + 1)

\* A digit count strictly between the bounds: not the program's
isValidPhoneExclusive(str) ==
  LET digits == CountIn(str, Digit)
  IN  digits > PhoneMinDigits /\ digits < PhoneMaxDigits

\* digits.length >= 7 && digits.length <= 15
isValidPhone(str) ==
  LET digits == CountIn(str, Digit)
  IN  digits >= PhoneMinDigits /\ digits <= PhoneMaxDigits

commonWords ==
  {<<"D","e">>, <<"D","e","l">>, <<"L","a">>, <<"E","l">>, <<"L","o","s">>, <<"L","a","s">>,
   <<"U","n">>, <<"U","n","a">>, <<"U","n","o","s">>, <<"U","n","a","s">>, <<"S","u">>,
   <<"S","u","s">>, <<"M","i">>, <<"M","i","s">>, <<"T","u">>, <<"T","u","s">>,
   <<"N","u","e","s","t","r","o">>, <<"N","u","e","s","t","r","a">>,
   <<"N","u","e","s","t","r","o","s">>, <<"N","u","e","s","t","r","a","s">>, <<"C","o","n">>,
   <<"P","a","r","a">>, <<"S","o","b","r","e">>, <<"D","e","s","d","e">>,
   <<"H","a","s","t","a">>, <<"P","o","r">>, <<"E","n">>, <<"A">>, <<"A","l">>,
   <<"B","u","e","n","o","s">>, <<"E","s","t","e">>, <<"E","s","t","a">>,
   <<"E","s","t","o","s">>, <<"E","s","t","a","s">>, <<"E","s","e">>, <<"E","s","a">>,
   <<"E","s","o","s">>, <<"E","s","a","s">>, <<"E","s">>, <<"S","o","n">>, <<"E","r","a">>,
   <<"F","u","e">>, <<"H","a">>, <<"H","a","n">>, <<"R","e","s","u","m","e">>,
   <<"R","e","s","u","m","e","n">>, <<"H","a","z">>, <<"H","a","c","e">>, <<"C","r","e","a">>,
   <<"C","r","e","a","r">>, <<"G","e","n","e","r","a">>, <<"G","e","n","e","r","a","r">>,
   <<"E","s","c","r","i","b","e">>, <<"E","s","c","r","i","b","i","r">>,
   <<"A","n","a","l","i","z","a">>, <<"A","n","a","l","i","z","a","r">>, <<"T","h","e">>,
   <<"A","n">>, <<"S","o","m","e">>, <<"A","n","y">>, <<"H","i","s">>, <<"H","e","r">>,
   <<"T","h","e","i","r">>, <<"O","u","r">>, <<"Y","o","u","r">>, <<"M","y">>, <<"I","t","s">>,
   <<"I","s">>, <<"A","r","e">>, <<"W","a","s">>, <<"W","e","r","e">>, <<"H","a","s">>,
   <<"H","a","v","e">>, <<"W","r","i","t","e">>, <<"W","r","i","t","e","s">>,
   <<"C","r","e","a","t","e">>, <<"C","r","e","a","t","e","s">>,
   <<"G","e","n","e","r","a","t","e">>, <<"G","e","n","e","r","a","t","e","s">>,
   <<"A","n","a","l","y","z","e">>, <<"A","n","a","l","y","z","e","s">>,
   <<"S","u","m","m","a","r","y">>, <<"C","o","n","t","a","c","t">>,
   <<"C","o","n","t","a","c","t","s">>}

\* A check that accepts every match: not the program's
isValidNameAny(str) == TRUE

\* !commonWords.includes(str) && str.length >= 3
isValidName(str) == str \notin commonWords /\ Len(str) >= NameMinLength

-----------------------------------------------------------------------------
(* Tokens                                                                  *)

\* crypto.createHash('sha256').update(v).digest('hex').substring(0, 8), tabulated
\* for the values the messages of this model give rise to, as written and
\* normalized
\* (the SHA-256 digests are the real ones; a value outside the table is an
\* evaluation error, never a made-up digest).
Sha256Hex8(v) ==
  CASE v = <<" ","1","2"," ","3","4"," ","5","6"," ">>
       -> <<"b","8","3","2","7","3","2","5">>
    [] v = <<" ","1","2","3","4","5","6","7","8","9","0","1","2","3","4","5"," ">>
       -> <<"e","5","8","9","c","3","5","a">>
    [] v = <<" ","1","2","3","4","5","6","7","8","9","0","1","2","3","4","5","6">>
       -> <<"c","f","3","0","2","b","7","9">>
    [] v = <<" ","3","1","5","2","3","1","9","1","5","7">>
       -> <<"1","a","6","4","2","2","1","1">>
    [] v = <<" ","5","5","5"," ","1","2"," ","3","4"," ">>
       -> <<"4","e","f","f","3","d","f","e">>
    [] v = <<" ","5","5","5","-","1","2","3","-","4","5","6","7"," ">>
       -> <<"c","0","d","8","a","2","d","c">>
    [] v = <<"B","o","r","d","a">>
       -> <<"0","a","f","1","5","3","5","6">>
    [] v = <<"D","B","O","R","D","A","@","G","M","A","I","L",".","C","O","M">>
       -> <<"9","e","0","a","8","3","2","c">>
    [] v = <<"D","a","g","o">>
       -> <<"9","5","3","1","0","4","a","3">>
    [] v = <<"D","a","g","o"," ","B","o","r","d","a">>
       -> <<"e","1","b","e","9","2","e","2">>
    [] v = <<"D","a","g","o",".","B","o","r","d","a","@","g","m","a","i","l",".","c","o","m">>
       -> <<"b","5","d","a","8","f","f","7">>
    [] v = <<"E","m","a","i","l">>
       -> <<"9","6","9","c","c","b","d","3">>
    [] v = <<"G","o","n","z">>
       -> <<"3","5","1","d","7","e","e","c">>
    [] v = <<"M","a","r">>
       -> <<"b","4","b","7","d","3","8","1">>
    [] v = <<"S","u">>
       -> <<"2","d","8","8","a","3","a","2">>
    [] v = <<"T","h","i","s">>
       -> <<"8","6","e","1","d","e","7","4">>
    [] v = <<"b","o","r","d","a">>
       -> <<"4","1","e","f","8","1","f","e">>
    [] v = <<"d","a","g","o">>
       -> <<"c","1","b","4","e","d","0","5">>
    [] v = <<"d","a","g","o"," ","b","o","r","d","a">>
       -> <<"e","a","7","f","3","8","8","3">>
    [] v = <<"d","a","g","o",".","b","o","r","d","a","@","g","m","a","i","l",".","c","o","m">>
       -> <<"1","4","f","d","d","8","4","3">>
    [] v = <<"d","b","o","r","d","a","@","g","m","a","i","l",".","c","o","m">>
       -> <<"8","0","0","4","7","1","9","c">>
    [] v = <<"e","m","a","i","l">>
       -> <<"8","2","2","4","4","4","1","7">>
    [] v = <<"e","s"," ","m","a","r","i","a"," ","g","a","r","c","i","a">>
       -> <<"0","f","b","f","2","2","3","9">>
    [] v = <<"g","o","n","z">>
       -> <<"b","6","d","8","d","0","e","6">>
    [] v = <<"m","a","r">>
       -> <<"5","1","6","0","9","2","8","6">>
    [] v = <<"m","e","s","s","a","g","e"," ","c","o","n","t","a","i","n","s">>
       -> <<"9","e","1","1","9","f","3","2">>
    [] v = <<"s","u">>
       -> <<"0","a","6","4","c","e","1","0">>
    [] v = <<"t","e","s","t","@","t","e","s","t",".","c","o","m">>
       -> <<"f","6","6","0","a","b","9","1">>
    [] v = <<"t","h","i","s">>
       -> <<"1","e","b","7","9","6","0","2">>

PiiTypes == {"NAME", "EMAIL", "PHONE"}

TypeText(type) ==
  CASE type = "NAME"  -> <<"N","A","M","E">>
    [] type = "EMAIL" -> <<"E","M","A","I","L">>
    [] type = "PHONE" -> <<"P","H","O","N","E">>
    [] OTHER          -> <<"u","n","d","e","f","i","n","e","d">>

\* A format with the type in lower case: not the program's
FormatTokenLower(type, token) == toLowerCase(TypeText(type)) \o <<"_">> \o token

\* `${type}_${token}`; a type that is undefined prints as "undefined"
FormatToken(type, token) == TypeText(type) \o <<"_">> \o token

\* A token one character short, hash.substring(0, 7): not the program's
NewTokenShort(normalizedValue) ==
  SubSeq(Sha256Hex8(normalizedValue), 1, TokenLength - 1)

\* hash.substring(0, 8) of the SHA-256 hex digest of the normalized value
NewToken(normalizedValue) == SubSeq(Sha256Hex8(normalizedValue), 1, TokenLength)

\* The value taken as written, without toLowerCase(): not the program's
NormalizeValueAsWritten(value) == value

\* value.toLowerCase() at the head of generateToken
NormalizeValue(value) == toLowerCase(value)

\* formattedToken.split('_')[1]; <<>> stands for the results that are falsy
\* (null when there is no "_", and the empty string)
extractToken(formattedToken) ==
  LET i == IndexOf(formattedToken, <<"_">>)
  IN  IF i = 0 THEN <<>>
      ELSE LET rest == SubSeq(formattedToken, i + 1, Len(formattedToken))
               j    == IndexOf(rest, <<"_">>)
           IN  IF j = 0 THEN rest ELSE SubSeq(rest, 1, j - 1)

\* formattedToken.split('_')[0]
getTokenType(formattedToken) ==
  LET i == IndexOf(formattedToken, <<"_">>)
  IN  IF i = 0 THEN <<>> ELSE SubSeq(formattedToken, 1, i - 1)

\* /(NAME|EMAIL|PHONE)_[a-f0-9]{8}/ anchored at index i: the index of the last
\* character of the match, 0 when there is none
TokenMatchEnd(s, i) ==
  LET heads == {t \in PiiTypes : OccursAt(s, TypeText(t) \o <<"_">>, i)}
  IN  IF heads = {} THEN 0
      ELSE LET b == i + Len(TypeText(CHOOSE t \in heads : TRUE)) + 1
           IN  IF /\ b + TokenLength - 1 <= Len(s)
                  /\ \A k \in b..(b + TokenLength - 1) : s[k] \in HexChar
               THEN b + TokenLength - 1
               ELSE 0

\* anonymizedMessage.match(tokenPattern)
RECURSIVE TokenScan(_, _)
TokenScan(s, i) ==
  IF i > Len(s) THEN <<>>
  ELSE LET e == TokenMatchEnd(s, i)
       IN  IF e = 0 THEN TokenScan(s, i + 1)
           ELSE <<SubSeq(s, i, e)>> \o TokenScan(s, e + 1)

-----------------------------------------------------------------------------
(* Lenient name detection                                                  *)

\* The characters the source file holds after "a-z" in its Spanish classes
\* [a-z...] (the file's accented letters are stored mis-encoded, as these)
SpanishLowerExtra == {"U+221A", "U+00B0", "U+00A9", "U+2260", "U+2265", "U+222B", "U+00B1"}

\* The characters the source file holds after "A-Z" in [A-Z...], closed
\* under the i flag
SpanishUpperExtra == {"U+221A", "U+00C5", "U+00E5", "U+00E2", "U+00C2", "U+00E7", "U+00C7", "U+00EC", "U+00CC", "U+00F6", "U+00D6", "U+00EB", "U+00CB"}

\* Every class below is used under the i flag, which makes a-z match A-Z
Letter == Lower \cup Upper

LetterEs == Letter \cup SpanishLowerExtra

CapitalEs == Letter \cup SpanishUpperExtra

\* p occurs in s at index i under the i flag
OccursAtCI(s, p, i) ==
  /\ i >= 1
  /\ i + Len(p) - 1 <= Len(s)
  /\ \A k \in 1..Len(p) : toLowerCaseChar(s[i + k - 1]) = toLowerCaseChar(p[k])

\* The words of the indicator phrases
IndicatorWords ==
  [cuyo    |-> <<"c","u","y","o">>,
   nombre  |-> <<"n","o","m","b","r","e">>,
   es      |-> <<"e","s">>,
   llamada |-> <<"l","l","a","m","a","d","a">>,
   llamado |-> <<"l","l","a","m","a","d","o">>,
   de      |-> <<"d","e">>,
   whose   |-> <<"w","h","o","s","e">>,
   name    |-> <<"n","a","m","e">>,
   is      |-> <<"i","s">>,
   called  |-> <<"c","a","l","l","e","d">>,
   named   |-> <<"n","a","m","e","d">>]

\* The indicator phrases: the words are separated by \s+; the capture follows
\* \s+ ("ws") or [:\s]+ ("colon").  cap: ([F][L]+(?:\s+[F][L]+)+); low:
\* ([L]{3,}\s+[L]{3,}).  In the order of the nameIndicators array, with
\* llamad[ao] as its two words.
nameIndicators ==
  << [words |-> <<{IndicatorWords.cuyo}, {IndicatorWords.nombre}, {IndicatorWords.es}>>, sep |-> "ws", cap |-> TRUE, F |-> CapitalEs, L |-> LetterEs],
     [words |-> <<{IndicatorWords.llamada, IndicatorWords.llamado}>>, sep |-> "ws", cap |-> TRUE, F |-> CapitalEs, L |-> LetterEs],
     [words |-> <<{IndicatorWords.de}, {IndicatorWords.nombre}>>, sep |-> "ws", cap |-> TRUE, F |-> CapitalEs, L |-> LetterEs],
     [words |-> <<{IndicatorWords.nombre}>>, sep |-> "colon", cap |-> TRUE, F |-> CapitalEs, L |-> LetterEs],
     [words |-> <<{IndicatorWords.cuyo}, {IndicatorWords.nombre}, {IndicatorWords.es}>>, sep |-> "ws", cap |-> FALSE, F |-> LetterEs, L |-> LetterEs],
     [words |-> <<{IndicatorWords.llamada, IndicatorWords.llamado}>>, sep |-> "ws", cap |-> FALSE, F |-> LetterEs, L |-> LetterEs],
     [words |-> <<{IndicatorWords.de}, {IndicatorWords.nombre}>>, sep |-> "ws", cap |-> FALSE, F |-> LetterEs, L |-> LetterEs],
     [words |-> <<{IndicatorWords.whose}, {IndicatorWords.name}, {IndicatorWords.is}>>, sep |-> "ws", cap |-> TRUE, F |-> Letter, L |-> Letter],
     [words |-> <<{IndicatorWords.called}>>, sep |-> "ws", cap |-> TRUE, F |-> Letter, L |-> Letter],
     [words |-> <<{IndicatorWords.named}>>, sep |-> "ws", cap |-> TRUE, F |-> Letter, L |-> Letter],
     [words |-> <<{IndicatorWords.name}>>, sep |-> "colon", cap |-> TRUE, F |-> Letter, L |-> Letter],
     [words |-> <<{IndicatorWords.whose}, {IndicatorWords.name}, {IndicatorWords.is}>>, sep |-> "ws", cap |-> FALSE, F |-> Letter, L |-> Letter],
     [words |-> <<{IndicatorWords.called}>>, sep |-> "ws", cap |-> FALSE, F |-> Letter, L |-> Letter],
     [words |-> <<{IndicatorWords.named}>>, sep |-> "ws", cap |-> FALSE, F |-> Letter, L |-> Letter],
     [words |-> <<{IndicatorWords.name}>>, sep |-> "colon", cap |-> FALSE, F |-> Letter, L |-> Letter] >>

\* The words of an indicator from its k-th on, the first of them at index i:
\* the index just after the separator that follows the last word, 0 when the
\* phrase does not match.
RECURSIVE PhraseEnd(_, _, _, _)
PhraseEnd(s, ind, k, i) ==
  LET hit == {w \in ind.words[k] : OccursAtCI(s, w, i)}
  IN  IF hit = {} THEN 0
      ELSE LET w     == CHOOSE x \in hit : TRUE
               after == i + Len(w)
               last  == k = Len(ind.words)
               cls   == IF last /\ ind.sep = "colon"
                        THEN WhiteSpace \cup {":"} ELSE WhiteSpace
               e     == RunEnd(s, after, cls)
           IN  IF e = after THEN 0
               ELSE IF last THEN e
               ELSE PhraseEnd(s, ind, k + 1, e)

\* [F][L]+ at index i: the index of its last character, 0 when none
CapWordEnd(s, i, F, L) ==
  IF i <= Len(s) /\ s[i] \in F
  THEN LET e == RunEnd(s, i + 1, L) IN IF e > i + 1 THEN e - 1 ELSE 0
  ELSE 0

\* (?:\s+[F][L]+)* after a word ending at index e, greedy: the index of the
\* last character of the last group
RECURSIVE CapChainEnd(_, _, _, _)
CapChainEnd(s, e, F, L) ==
  LET ws  == RunEnd(s, e + 1, WhiteSpace)
      nxt == IF ws > e + 1 THEN CapWordEnd(s, ws, F, L) ELSE 0
  IN  IF nxt = 0 THEN e ELSE CapChainEnd(s, nxt, F, L)

\* The capture group of an indicator at index i: the index of its last
\* character, 0 when it does not match
CaptureEnd(s, ind, i) ==
  IF ind.cap
  THEN LET e1 == CapWordEnd(s, i, ind.F, ind.L)
           e  == IF e1 = 0 THEN 0 ELSE CapChainEnd(s, e1, ind.F, ind.L)
       IN  IF e1 = 0 \/ e = e1 THEN 0 ELSE e
  ELSE LET e1 == RunEnd(s, i, ind.L)
           ws == RunEnd(s, e1, WhiteSpace)
           e2 == RunEnd(s, ws, ind.L)
       IN  IF e1 - i >= 3 /\ ws > e1 /\ e2 - ws >= 3 THEN e2 - 1 ELSE 0

\* while ((m = pattern.exec(anonymized)) !== null): the matches of one
\* indicator from index i on, each as [name |-> m[1], index |-> m.index]
\* (m.index is kept 1-based)
RECURSIVE IndicatorScan(_, _, _)
IndicatorScan(s, ind, i) ==
  IF i > Len(s) THEN <<>>
  ELSE LET c == IF Boundary(s, i) THEN PhraseEnd(s, ind, 1, i) ELSE 0
           e == IF c = 0 THEN 0 ELSE CaptureEnd(s, ind, c)
       IN  IF e = 0 THEN IndicatorScan(s, ind, i + 1)
           ELSE <<[name |-> SubSeq(s, c, e), index |-> i]>>
                  \o IndicatorScan(s, ind, e + 1)

\* The loop over nameIndicators that fills indicatorMatches: a candidate is
\* kept when it holds no "_", is longer than 5 characters and its lower-case
\* form was not seen before.
RECURSIVE CollectIndicatorMatches(_, _, _, _)
CollectIndicatorMatches(s, k, found, acc) ==
  IF k > Len(nameIndicators) THEN acc
  ELSE IF found = <<>>
  THEN IF k = Len(nameIndicators) THEN acc
       ELSE CollectIndicatorMatches(s, k + 1,
              IndicatorScan(s, nameIndicators[k + 1], 1), acc)
  ELSE LET m    == Head(found)
           seen == {toLowerCase(acc[x].name) : x \in 1..Len(acc)}
           keep == /\ ~Includes(m.name, <<"_">>)
                   /\ Len(m.name) > 5
                   /\ toLowerCase(m.name) \notin seen
       IN  CollectIndicatorMatches(s, k, Tail(found),
             IF keep THEN Append(acc, m) ELSE acc)

\* indicatorMatches.sort((a, b) => b.index - a.index): stable, by descending
\* index (an insertion sort, which keeps the order of equal indices)
RECURSIVE InsertByIndex(_, _)
InsertByIndex(sorted, m) ==
  IF sorted = <<>> THEN <<m>>
  ELSE IF Head(sorted).index >= m.index
       THEN <<Head(sorted)>> \o InsertByIndex(Tail(sorted), m)
       ELSE <<m>> \o sorted

RECURSIVE SortByIndexDesc(_, _)
SortByIndexDesc(ms, acc) ==
  IF ms = <<>> THEN acc
  ELSE SortByIndexDesc(Tail(ms), InsertByIndex(acc, Head(ms)))

indicatorMatches(anonymized) ==
  SortByIndexDesc(
    CollectIndicatorMatches(anonymized, 1,
      IndicatorScan(anonymized, nameIndicators[1], 1), <<>>), <<>>)

\* new RegExp(escaped, 'i').test(s): p occurs in s, case-insensitively
IncludesCI(s, p) == \E i \in 1..(Len(s) - Len(p) + 1) : OccursAtCI(s, p, i)

\* s.replace(new RegExp(escaped, 'g' or 'gi'), rep): every occurrence, left to
\* right, without overlap
RECURSIVE ReplaceAllFrom(_, _, _, _, _)
ReplaceAllFrom(s, p, rep, ci, i) ==
  IF i > Len(s) - Len(p) + 1 THEN SubSeq(s, i, Len(s))
  ELSE IF (IF ci THEN OccursAtCI(s, p, i) ELSE OccursAt(s, p, i))
       THEN rep \o ReplaceAllFrom(s, p, rep, ci, i + Len(p))
       ELSE <<s[i]>> \o ReplaceAllFrom(s, p, rep, ci, i + 1)

ReplaceAll(s, p, rep, ci) == ReplaceAllFrom(s, p, rep, ci, 1)

\* lowerSeqRegex = /\b([L]{2,})\s+([L]{2,})\b/gi anchored at index i:
\* [w1 end, w2 start, w2 end], or <<>> when there is no match
LowerSeqMatch(s, i) ==
  LET e1   == RunEnd(s, i, LetterEs)
      ws   == RunEnd(s, e1, WhiteSpace)
      e2   == RunEnd(s, ws, LetterEs)
      ends == {q \in (ws + 1)..(e2 - 1) : Boundary(s, q + 1)}
  IN  IF Boundary(s, i) /\ e1 - i >= 2 /\ ws > e1 /\ ends # {}
      THEN <<e1 - 1, ws, CHOOSE q \in ends : \A y \in ends : y <= q>>
      ELSE <<>>

RECURSIVE LowerSeqScan(_, _)
LowerSeqScan(s, i) ==
  IF i > Len(s) THEN <<>>
  ELSE LET m == LowerSeqMatch(s, i)
       IN  IF m = <<>> THEN LowerSeqScan(s, i + 1)
           ELSE <<[w1 |-> SubSeq(s, i, m[1]), w2 |-> SubSeq(s, m[2], m[3])]>>
                  \o LowerSeqScan(s, m[3] + 1)

stopwords ==
  {<<"d","e">>, <<"d","e","l">>, <<"l","a">>, <<"e","l">>, <<"l","o","s">>, <<"l","a","s">>,
   <<"u","n">>, <<"u","n","a">>, <<"u","n","o","s">>, <<"u","n","a","s">>, <<"s","u">>,
   <<"s","u","s">>, <<"m","i">>, <<"m","i","s">>, <<"t","u">>, <<"t","u","s">>,
   <<"n","u","e","s","t","r","o">>, <<"n","u","e","s","t","r","a">>,
   <<"n","u","e","s","t","r","o","s">>, <<"n","u","e","s","t","r","a","s">>,
   <<"v","u","e","s","t","r","o">>, <<"v","u","e","s","t","r","a">>,
   <<"v","u","e","s","t","r","o","s">>, <<"v","u","e","s","t","r","a","s">>, <<"y">>,
   <<"p","a","r","a">>, <<"c","o","n">>, <<"s","i","n">>, <<"s","o","b","r","e">>,
   <<"d","e","s","d","e">>, <<"h","a","s","t","a">>, <<"p","o","r">>, <<"e","n">>, <<"a">>,
   <<"a","l">>, <<"o","f","e","r","t","a">>, <<"t","r","a","b","a","j","o">>,
   <<"e","m","a","i","l">>, <<"c","o","r","r","e","o">>, <<"t","e","l","e","f","o","n","o">>,
   <<"t","e","l","U+221A","U+00A9","f","o","n","o">>, <<"c","v">>, <<"r","e","s","u","m","e">>,
   <<"r","e","s","u","m","e","n">>, <<"n","u","m","e","r","o">>,
   <<"n","U+221A","U+222B","m","e","r","o">>, <<"n","u","m","e","r","o","s">>,
   <<"n","U+221A","U+222B","m","e","r","o","s">>, <<"c","e","l","u","l","a","r">>, <<"c","e","l">>,
   <<"c","o","n","t","a","c","t","o">>, <<"c","o","n","t","a","c","t","o","s">>,
   <<"h","a","b","i","l","i","d","a","d","e","s">>, <<"h","a","b","i","l","i","d","a","d">>,
   <<"e","s">>, <<"s","o","n">>, <<"e","s","t","a">>, <<"e","s","t","U+221A","U+00B0">>,
   <<"e","s","t","a","n">>, <<"e","s","t","U+221A","U+00B0","n">>, <<"h","a","z">>, <<"h","a","c","e">>,
   <<"c","r","e","a">>, <<"c","r","e","a","r">>, <<"g","e","n","e","r","a">>,
   <<"g","e","n","e","r","a","r">>, <<"e","s","c","r","i","b","e">>,
   <<"e","s","c","r","i","b","i","r">>, <<"a","n","a","l","i","z","a">>,
   <<"a","n","a","l","i","z","a","r">>, <<"c","o","o","r","d","i","n","a">>,
   <<"c","o","o","r","d","i","n","a","r">>, <<"c","u","y","o">>, <<"c","u","y","a">>,
   <<"c","u","y","o","s">>, <<"c","u","y","a","s">>, <<"n","o","m","b","r","e">>,
   <<"n","o","m","n","b","r","e">>, <<"n","o","m">>, <<"q","u","e">>, <<"c","u","a","l">>,
   <<"c","u","a","l","e","s">>, <<"t","h","e">>, <<"a","n">>, <<"s","o","m","e">>,
   <<"a","n","y">>, <<"h","i","s">>, <<"h","e","r">>, <<"t","h","e","i","r">>, <<"o","u","r">>,
   <<"y","o","u","r">>, <<"m","y">>, <<"i","t","s">>, <<"a","n","d">>, <<"o","r">>,
   <<"b","u","t">>, <<"w","i","t","h">>, <<"f","r","o","m">>, <<"f","o","r">>, <<"t","o">>,
   <<"i","n">>, <<"o","n">>, <<"a","t">>, <<"b","y">>, <<"p","h","o","n","e">>,
   <<"n","u","m","b","e","r">>, <<"c","o","n","t","a","c","t">>, <<"s","k","i","l","l","s">>,
   <<"s","k","i","l","l">>, <<"a","b","i","l","i","t","y">>,
   <<"a","b","i","l","i","t","i","e","s">>, <<"w","r","i","t","e">>,
   <<"w","r","i","t","e","s">>, <<"c","r","e","a","t","e">>, <<"c","r","e","a","t","e","s">>,
   <<"g","e","n","e","r","a","t","e">>, <<"g","e","n","e","r","a","t","e","s">>,
   <<"a","n","a","l","y","z","e">>, <<"a","n","a","l","y","z","e","s">>,
   <<"s","u","m","m","a","r","y">>, <<"c","o","n","t","a","c","t","s">>,
   <<"w","h","o","s","e">>, <<"c","a","l","l","e","d">>, <<"n","a","m","e","d">>}

invalidFirstWords ==
  {<<"e","s">>, <<"s","o","n">>, <<"e","r","a">>, <<"f","u","e">>, <<"h","a">>,
   <<"h","a","n">>, <<"s","e","r">>, <<"e","s","t","a","r">>, <<"i","s">>, <<"a","r","e">>,
   <<"w","a","s">>, <<"w","e","r","e">>, <<"h","a","s">>, <<"h","a","v","e">>,
   <<"b","e","e","n">>, <<"b","e","i","n","g">>}

\* The filters of the fallback pass, in order, over the matches: stopwords,
\* invalid first words, words shorter than 3, candidates already seen
RECURSIVE FilterCandidates(_, _)
FilterCandidates(ms, acc) ==
  IF ms = <<>> THEN acc
  ELSE LET w1 == Head(ms).w1
           w2 == Head(ms).w2
           candidate == w1 \o <<" ">> \o w2
           drop == \/ toLowerCase(w1) \in stopwords
                   \/ toLowerCase(w2) \in stopwords
                   \/ w1 \in stopwords
                   \/ w2 \in stopwords
                   \/ toLowerCase(w1) \in invalidFirstWords
                   \/ w1 \in invalidFirstWords
                   \/ Len(w1) < 3
                   \/ Len(w2) < 3
                   \/ \E x \in 1..Len(acc) : acc[x] = candidate
       IN  FilterCandidates(Tail(ms), IF drop THEN acc ELSE Append(acc, candidate))

candidates(anonymized) == FilterCandidates(LowerSeqScan(anonymized, 1), <<>>)

-----------------------------------------------------------------------------
(* Messages                                                                *)

\* "oferta de trabajo para Dago Borda con email dborda@gmail.com y telU+00E9fono 3152319157": originalMessage of src/test_deanonymize.js (and Test 1 of src/unnamed/part_001)
TestMessage ==
  <<"o", "f", "e", "r", "t", "a", " ", "d", "e", " ", "t", "r", "a", "b", "a", "j", "o", " ",
   "p", "a", "r", "a", " ", "D", "a", "g", "o", " ", "B", "o", "r", "d", "a", " ", "c", "o",
   "n", " ", "e", "m", "a", "i", "l", " ", "d", "b", "o", "r", "d", "a", "@", "g", "m", "a",
   "i", "l", ".", "c", "o", "m", " ", "y", " ", "t", "e", "l", "U+00E9", "f", "o", "n", "o", " ",
   "3", "1", "5", "2", "3", "1", "9", "1", "5", "7">>

\* "Email dborda@gmail.com again: dborda@gmail.com": test4Message of src/unnamed/part_001
ConsistencyMessage ==
  <<"E", "m", "a", "i", "l", " ", "d", "b", "o", "r", "d", "a", "@", "g", "m", "a", "i", "l",
   ".", "c", "o", "m", " ", "a", "g", "a", "i", "n", ":", " ", "d", "b", "o", "r", "d", "a",
   "@", "g", "m", "a", "i", "l", ".", "c", "o", "m">>

\* "This message contains no personal information.": test3Message of src/unnamed/part_001
NoPiiMessage ==
  <<"T", "h", "i", "s", " ", "m", "e", "s", "s", "a", "g", "e", " ", "c", "o", "n", "t", "a",
   "i", "n", "s", " ", "n", "o", " ", "p", "e", "r", "s", "o", "n", "a", "l", " ", "i", "n",
   "f", "o", "r", "m", "a", "t", "i", "o", "n", ".">>

\* "mail DBORDA@GMAIL.COM": the email of ConsistencyMessage in upper case
UpperEmailMessage ==
  <<"m", "a", "i", "l", " ", "D", "B", "O", "R", "D", "A", "@", "G", "M", "A", "I", "L", ".",
   "C", "O", "M">>

\* "call 555-123-4567 or mail dborda@gmail.com": a message without capital letters: a phone number and an email
PlainMessage ==
  <<"c", "a", "l", "l", " ", "5", "5", "5", "-", "1", "2", "3", "-", "4", "5", "6", "7", " ",
   "o", "r", " ", "m", "a", "i", "l", " ", "d", "b", "o", "r", "d", "a", "@", "g", "m", "a",
   "i", "l", ".", "c", "o", "m">>

\* "Su email es test@test.com": a capitalized possessive of commonWords before an email
PossessiveMessage ==
  <<"S", "u", " ", "e", "m", "a", "i", "l", " ", "e", "s", " ", "t", "e", "s", "t", "@", "t",
   "e", "s", "t", ".", "c", "o", "m">>

\* "cuyo nombre es maria garcia": a prompt for /secureChatGPT: a lower-case name after an indicator phrase
NamePrompt ==
  <<"c", "u", "y", "o", " ", "n", "o", "m", "b", "r", "e", " ", "e", "s", " ", "m", "a", "r",
   "i", "a", " ", "g", "a", "r", "c", "i", "a">>

\* "mail Dago.Borda@gmail.com": an email whose local part is made of capitalized words
CapitalEmailMessage ==
  <<"m", "a", "i", "l", " ", "D", "a", "g", "o", ".", "B", "o", "r", "d", "a", "@", "g", "m",
   "a", "i", "l", ".", "c", "o", "m">>

\* "a 12 34 56 b 555 12 34 c 123456789012345 d 1234567890123456": phone candidates of 6, 7, 15 and 16 digits
PhoneDigitsMessage ==
  <<"a", " ", "1", "2", " ", "3", "4", " ", "5", "6", " ", "b", " ", "5", "5", "5", " ", "1",
   "2", " ", "3", "4", " ", "c", " ", "1", "2", "3", "4", "5", "6", "7", "8", "9", "0", "1",
   "2", "3", "4", "5", " ", "d", " ", "1", "2", "3", "4", "5", "6", "7", "8", "9", "0", "1",
   "2", "3", "4", "5", "6">>

\* "llama a MarU+00EDa GonzU+00E1lez": a name of src/README.md (Names, Spanish examples) after lower-case words
AccentedNameMessage ==
  <<"l", "l", "a", "m", "a", " ", "a", " ", "M", "a", "r", "U+00ED", "a", " ", "G", "o", "n", "z",
   "U+00E1", "l", "e", "z">>

\* "hi NAME_deadbeef": a text with a token that was never issued
UnknownTokenText ==
  <<"h", "i", " ", "N", "A", "M", "E", "_", "d", "e", "a", "d", "b", "e", "e", "f">>

\* "NAME_deadbeef and EMAIL_8004719c": a never-issued token next to the token of dborda@gmail.com
MixedTokenText ==
  <<"N", "A", "M", "E", "_", "d", "e", "a", "d", "b", "e", "e", "f", " ", "a", "n", "d", " ",
   "E", "M", "A", "I", "L", "_", "8", "0", "0", "4", "7", "1", "9", "c">>

\* "PHONE_8004719c": the token of dborda@gmail.com under the type of a phone
OtherTypeText ==
  <<"P", "H", "O", "N", "E", "_", "8", "0", "0", "4", "7", "1", "9", "c">>

-----------------------------------------------------------------------------
(* HTTP bodies                                                             *)

\* A value of a JSON request body field: typeof, and the characters of a
\* string or the number
JsUndefined == [type |-> "undefined", value |-> <<>>]
JsNumber(n) == [type |-> "number", value |-> n]
JsString(s) == [type |-> "string", value |-> s]

\* !v of JavaScript for these values
Falsy(v) ==
  CASE v.type = "undefined" -> TRUE
    [] v.type = "number"    -> v.value = 0
    [] v.type = "string"    -> v.value = <<>>

\* The error and details texts of the error responses of the handlers
ResponseTexts ==
  [
   \* "Bad Request": error of a 400
   ErrBadRequest |->
     <<"B", "a", "d", " ", "R", "e", "q", "u", "e", "s", "t">>,
   \* "Not Implemented": error of the 501
   ErrNotImplemented |->
     <<"N", "o", "t", " ", "I", "m", "p", "l", "e", "m", "e", "n", "t", "e", "d">>,
   \* "Internal Server Error": error of a 500
   ErrInternal |->
     <<"I", "n", "t", "e", "r", "n", "a", "l", " ", "S", "e", "r", "v", "e", "r", " ",
       "E", "r", "r", "o", "r">>,
   \* "Message field is required": /anonymize, first check
   DetMessageRequired |->
     <<"M", "e", "s", "s", "a", "g", "e", " ", "f", "i", "e", "l", "d", " ", "i", "s",
       " ", "r", "e", "q", "u", "i", "r", "e", "d">>,
   \* "Message must be a string": /anonymize, second check
   DetMessageString |->
     <<"M", "e", "s", "s", "a", "g", "e", " ", "m", "u", "s", "t", " ", "b", "e", " ",
       "a", " ", "s", "t", "r", "i", "n", "g">>,
   \* "anonymizedMessage field is required": /deanonymize, first check
   DetAnonymizedRequired |->
     <<"a", "n", "o", "n", "y", "m", "i", "z", "e", "d", "M", "e", "s", "s", "a", "g",
       "e", " ", "f", "i", "e", "l", "d", " ", "i", "s", " ", "r", "e", "q", "u", "i",
       "r", "e", "d">>,
   \* "anonymizedMessage must be a string": /deanonymize, second check
   DetAnonymizedString |->
     <<"a", "n", "o", "n", "y", "m", "i", "z", "e", "d", "M", "e", "s", "s", "a", "g",
       "e", " ", "m", "u", "s", "t", " ", "b", "e", " ", "a", " ", "s", "t", "r", "i",
       "n", "g">>,
   \* "An error occurred while processing the request": /anonymize and /deanonymize, catch
   DetProcessing |->
     <<"A", "n", " ", "e", "r", "r", "o", "r", " ", "o", "c", "c", "u", "r", "r", "e",
       "d", " ", "w", "h", "i", "l", "e", " ", "p", "r", "o", "c", "e", "s", "s", "i",
       "n", "g", " ", "t", "h", "e", " ", "r", "e", "q", "u", "e", "s", "t">>,
   \* "OpenAI is not configured on this server": /secureChatGPT, no provider client
   DetNotConfigured |->
     <<"O", "p", "e", "n", "A", "I", " ", "i", "s", " ", "n", "o", "t", " ", "c", "o",
       "n", "f", "i", "g", "u", "r", "e", "d", " ", "o", "n", " ", "t", "h", "i", "s",
       " ", "s", "e", "r", "v", "e", "r">>,
   \* "prompt (string) is required": /secureChatGPT, check of prompt
   DetPromptRequired |->
     <<"p", "r", "o", "m", "p", "t", " ", "(", "s", "t", "r", "i", "n", "g", ")", " ",
       "i", "s", " ", "r", "e", "q", "u", "i", "r", "e", "d">>,
   \* "Failed to process secureChatGPT request": /secureChatGPT, catch
   DetSecureFailed |->
     <<"F", "a", "i", "l", "e", "d", " ", "t", "o", " ", "p", "r", "o", "c", "e", "s",
       "s", " ", "s", "e", "c", "u", "r", "e", "C", "h", "a", "t", "G", "P", "T", " ",
       "r", "e", "q", "u", "e", "s", "t">>]

\* res.json({ error, details }) as the text of the body
ErrorJson(error, details) ==
  <<"{", "\"", "e", "r", "r", "o", "r", "\"", ":", "\"">> \o error
    \o <<"\"", ",", "\"", "d", "e", "t", "a", "i", "l", "s", "\"", ":", "\"">>
    \o details \o <<"\"", "}">>

-----------------------------------------------------------------------------
(* Bounds and inputs                                                       *)

\* Requests (anonymize, deanonymize, secureChatGPT) started in one behaviour
MaxRequests == 2

\* Process restarts in one behaviour
MaxRestarts == 1

\* Request slots: the requests that can be in flight together
SlotCount == 2

Slots == 1..SlotCount

\* Bodies of POST /anonymize
AnonymizeMessages ==
  {TestMessage, ConsistencyMessage, NoPiiMessage, UpperEmailMessage, PlainMessage,
   NamePrompt, PossessiveMessage}

\* Bodies of POST /anonymize for the detection steps: an email made of
\* capitalized words, phone candidates around the bounds of isValidPhone, a
\* name with accented letters
DetectMessages == {CapitalEmailMessage, PhoneDigitsMessage, AccentedNameMessage}

\* Bodies of POST /secureChatGPT
SecurePrompts == {NamePrompt, UpperEmailMessage, PossessiveMessage}

\* Body fields that are missing or are not a string
InvalidBodies == {JsUndefined, JsNumber(42)}

\* Values handed to generateToken directly: one value, as written in two cases
GenerateValues == {SubSeq(UpperEmailMessage, 6, Len(UpperEmailMessage)),
                   SubSeq(PlainMessage, 27, Len(PlainMessage))}

\* Bodies of POST /deanonymize that are not the output of an earlier call
DeanonymizeTexts == {UnknownTokenText, MixedTokenText, OtherTypeText}

-----------------------------------------------------------------------------
(* State                                                                   *)

VARIABLES
  tokenCache,         \* Map: normalized value -> token
  reverseTokenCache,  \* Map: token -> [value, type]
  db,                 \* the documents of the Token collection
  conn,               \* the mongoose connection: "up", "down", or "never" connected
  reqs,               \* the request each slot is serving
  stats,              \* the GET /stats handler and its last response
  epoch,              \* the number of restarts: the process lifetime
  started,            \* the number of requests started
  inflight,           \* how many requests the clients keep in flight together
  lastAnon,           \* the last answer of POST /anonymize, as the client holds it
  issued,             \* history: every <<value, formatted token>> generateToken returned
  openAI,             \* whether the provider client was built at startup
  server              \* where the startup routine is: "connecting", "loading",
                      \* "loaded" or "unloaded" (connectDatabase returns), "listening"

vars ==
  <<tokenCache, reverseTokenCache, db, conn, reqs, stats, epoch, started,
    inflight, lastAnon, issued, openAI, server>>

\* A check that takes the store for connected whatever readyState is: not
\* the program's
isDbConnectedAlways == TRUE

\* mongoose.connection.readyState === 1
isDbConnected == conn = "up"

\* The store answers an operation only while the connection is up: with
\* bufferCommands off an operation on a lost connection fails at once
StoreReachable == conn = "up"

NoPend == [originalValue |-> <<>>, token |-> <<>>, type |-> "", usageCount |-> 0,
           createdAt |-> 0, lastUsedAt |-> 0]

IdleReq ==
  [kind |-> "none", pc |-> "idle", input |-> <<>>, lenient |-> FALSE,
   message |-> <<>>, text |-> <<>>, stage |-> "end", todo |-> <<>>,
   pend |-> NoPend, origin |-> <<>>, originEpoch |-> 0, unresolved |-> <<>>,
   lost |-> {},
   sent |-> <<>>, ret |-> <<>>, downAll |-> FALSE, usedStore |-> FALSE,
   faulted |-> FALSE, known |-> {}, bodyType |-> "", status |-> 0, error |-> <<>>,
   path |-> "", argType |-> "", fresh |-> FALSE, storeOps |-> 0]

NoAnon == [message |-> <<>>, output |-> <<>>, epoch |-> 0]

IdleStats == [pc |-> "idle", databaseConnected |-> FALSE, down |-> FALSE]

\* Token.findByOriginalValue: findOne({ originalValue: originalValue.toLowerCase() })
findByOriginalValue(originalValue) ==
  {d \in db : d.originalValue = toLowerCase(originalValue)}

\* A query on the wrong field, findOne({ originalValue: token }): not the
\* program's
findByTokenInValues(token) == {d \in db : d.originalValue = token}

\* Token.findByToken: findOne({ token: token })
findByToken(token) == {d \in db : d.token = token}

\* A collection without unique indexes, where no insert is a duplicate: not
\* the program's
DuplicateKeyNever(doc) == FALSE

\* The unique indexes of the schema on originalValue and on token
DuplicateKey(doc) ==
  \E d \in db : d.originalValue = doc.originalValue \/ d.token = doc.token

\* Only tokenCache.set(normalizedValue, token), the reverse map left as it
\* is: not the program's
CacheSetForward(caches, normalizedValue, token, type) ==
  [fwd |-> (normalizedValue :> token) @@ caches.fwd, rev |-> caches.rev]

\* Maps that take a mapping only while the store is connected: not the
\* program's
CacheSetConnected(caches, normalizedValue, token, type) ==
  IF isDbConnected
  THEN [fwd |-> (normalizedValue :> token) @@ caches.fwd,
        rev |-> (token :> [value |-> normalizedValue, type |-> type]) @@ caches.rev]
  ELSE caches

\* A reverse map keyed by the formatted token: not the program's
CacheSetFormatted(caches, normalizedValue, token, type) ==
  [fwd |-> (normalizedValue :> token) @@ caches.fwd,
   rev |-> (FormatToken(type, token) :> [value |-> normalizedValue, type |-> type])
             @@ caches.rev]

\* Maps that keep the last mapping only: not the program's
CacheSetEvict(caches, normalizedValue, token, type) ==
  [fwd |-> (normalizedValue :> token),
   rev |-> (token :> [value |-> normalizedValue, type |-> type])]

\* tokenCache.set(normalizedValue, token);
\* reverseTokenCache.set(token, { value: normalizedValue, type: type })
CacheSet(caches, normalizedValue, token, type) ==
  [fwd |-> (normalizedValue :> token) @@ caches.fwd,
   rev |-> (token :> [value |-> normalizedValue, type |-> type]) @@ caches.rev]

\* The two maps as they are
Caches == [fwd |-> tokenCache, rev |-> reverseTokenCache]

\* new Map()
EmptyMap == [x \in {} |-> <<>>]

\* A load that fills the forward map only: not the program's
LoadDocsForward(docs, caches) ==
  [fwd |-> [v \in DOMAIN caches.fwd \cup {d.originalValue : d \in docs} |->
              IF \E d \in docs : d.originalValue = v
              THEN (CHOOSE d \in docs : d.originalValue = v).token
              ELSE caches.fwd[v]],
   rev |-> caches.rev]

\* loadTokensIntoCache: every document of the collection into both maps
RECURSIVE LoadDocs(_, _)
LoadDocs(docs, caches) ==
  IF docs = {} THEN caches
  ELSE LET d == CHOOSE x \in docs : TRUE
       IN  LoadDocs(docs \ {d}, CacheSet(caches, d.originalValue, d.token, d.type))

-----------------------------------------------------------------------------
(* anonymizeMessage: the work list                                         *)

\* One generateToken call and the replacement that follows it: the matched
\* text, the type asked for, and how the match is replaced ("first": 
\* String.replace with a string; "allci": a 'gi' RegExp; "all": a 'g' RegExp)
Item(match, type, mode) == [match |-> match, type |-> type, mode |-> mode]

RECURSIVE ItemsOf(_, _, _)
ItemsOf(ms, type, mode) ==
  IF ms = <<>> THEN <<>>
  ELSE <<Item(Head(ms), type, mode)>> \o ItemsOf(Tail(ms), type, mode)

RECURSIVE SelectValid(_, _)
SelectValid(ms, type) ==
  IF ms = <<>> THEN <<>>
  ELSE (IF (IF type = "PHONE" THEN isValidPhone(Head(ms)) ELSE isValidName(Head(ms)))
        THEN <<Head(ms)>> ELSE <<>>) \o SelectValid(Tail(ms), type)

\* The email pattern without its g flag, which matches once: not the
\* program's
emailMatchesOnce(message) ==
  IF EmailScan(message, 1) = <<>> THEN <<>> ELSE <<Head(EmailScan(message, 1))>>

\* message.match(PII_PATTERNS.email) || []
emailMatches(message) == EmailScan(message, 1)

\* message.match(PII_PATTERNS.phone) || []
phoneMatches(message) == PhoneScan(message, 1)

\* message.match(PII_PATTERNS.name) || []
nameMatches(message) == NameScan(message, 1)

\* Steps 1 to 3 of anonymizeMessage: every email, then every valid phone,
\* then every valid capitalized name, all matched on the original message
StrictItems(message) ==
  ItemsOf(emailMatches(message), "EMAIL", "first")
    \o ItemsOf(SelectValid(phoneMatches(message), "PHONE"), "PHONE", "first")
    \o ItemsOf(SelectValid(nameMatches(message), "NAME"), "NAME", "first")

RECURSIVE NamesOf(_)
NamesOf(ms) == IF ms = <<>> THEN <<>> ELSE <<Head(ms).name>> \o NamesOf(Tail(ms))

\* Step 3.5: the names after an indicator, the last in the text first
IndicatorItems(anonymized) ==
  ItemsOf(NamesOf(indicatorMatches(anonymized)), "NAME", "allci")

\* The fallback pass over the lower-case two-word sequences
FallbackItems(anonymized) == ItemsOf(candidates(anonymized), "NAME", "all")

\* nameRegex.test(anonymized) and anonymized.includes(candidate): whether the
\* loop body runs for the item
StillInText(text, item) ==
  CASE item.mode = "first" -> TRUE
    [] item.mode = "allci" -> IncludesCI(text, item.match)
    [] item.mode = "all"   -> Includes(text, item.match)

\* anonymized.replace(..., token) for the item
ApplyItem(text, item, token) ==
  CASE item.mode = "first" -> Replace(text, item.match, token)
    [] item.mode = "allci" -> ReplaceAll(text, item.match, token, TRUE)
    [] item.mode = "all"   -> ReplaceAll(text, item.match, token, FALSE)

\* The synchronous code up to the next generateToken call: items whose text
\* is gone are skipped, and an empty list moves on to the next pass.
RECURSIVE Advance(_, _, _, _)
Advance(text, todo, stage, lenient) ==
  IF todo # <<>>
  THEN IF StillInText(text, Head(todo))
       THEN [todo |-> todo, stage |-> stage]
       ELSE Advance(text, Tail(todo), stage, lenient)
  ELSE IF stage = "strict" /\ lenient
       THEN Advance(text, IndicatorItems(text), "indicator", lenient)
  ELSE IF stage = "indicator"
       THEN Advance(text, FallbackItems(text), "fallback", lenient)
  ELSE [todo |-> <<>>, stage |-> "end"]

\* anonymizeMessage(message, {lenientNames}) as a function of the message
\* when every generateToken call takes the create path with the type asked
\* for: the text it returns
RECURSIVE AnonymizeFrom(_, _, _, _)
AnonymizeFrom(text, todo, stage, lenient) ==
  LET adv == Advance(text, todo, stage, lenient)
  IN  IF adv.todo = <<>> THEN text
      ELSE LET item  == Head(adv.todo)
               token == NewToken(NormalizeValue(
                          IF item.mode = "allci" THEN toLowerCase(item.match)
                          ELSE item.match))
           IN  AnonymizeFrom(ApplyItem(text, item, FormatToken(item.type, token)),
                             Tail(adv.todo), adv.stage, lenient)

anonymizeMessage(message, lenientNames) ==
  AnonymizeFrom(message, StrictItems(message), "strict", lenientNames)


-----------------------------------------------------------------------------
(* Requests                                                                *)

Active(q) == q.pc \notin {"idle", "done", "failed", "rejected"}

\* The requests under way, GET /stats included
Busy ==
  Cardinality({s \in Slots : Active(reqs[s])}) + (IF stats.pc = "count" THEN 1 ELSE 0)

\* The startup routine listens at its first statement: not the program's
ListeningAtOnce == TRUE

\* app.listen has been called, which the startup routine does after
\* await connectDatabase() and the construction of the provider client
Listening == server = "listening"

\* A request is accepted by a server that listens, while the clients have
\* fewer than `inflight` under way
CanAccept == Listening /\ started < MaxRequests /\ Busy < inflight

\* A request takes the first slot that serves none
CanStart(r) ==
  /\ CanAccept
  /\ ~Active(reqs[r])
  /\ \A s \in Slots : s < r => Active(reqs[s])

\* The value anonymizeMessage hands to generateToken for an item: the match,
\* and for an indicator-based name originalName.toLowerCase()
GenValue(item) == IF item.mode = "allci" THEN toLowerCase(item.match) ELSE item.match

\* The prompt as the client sent it: not what the program passes on
LlmInputPrompt(prompt, anonymizedPrompt) == prompt

\* The text /secureChatGPT passes to openAI.completeText
LlmInput(prompt, anonymizedPrompt) == anonymizedPrompt

\* anonymizeMessage(prompt, { lenientNames: true }) in /secureChatGPT
SecureLenientNames == TRUE

\* A request whose anonymizeMessage is at `adv`, the outcome of its
\* synchronous code on `text`: at the next generateToken call, or finished
\* (an answer for /anonymize, the provider call for /secureChatGPT)
ProceedTo(q, text, adv) ==
  [q EXCEPT !.text = text, !.todo = adv.todo, !.stage = adv.stage,
            !.pend = NoPend,
            !.pc = IF adv.todo # <<>> THEN "gen"
                   ELSE IF q.kind = "secure" THEN "llm" ELSE "done",
            !.sent = IF adv.todo = <<>> /\ q.kind = "secure"
                     THEN Append(q.sent, LlmInput(q.input, text)) ELSE q.sent]

\* A request after anonymizeMessage has run its synchronous code on `text`
\* with the work list `todo`
Proceed(q, text, todo, stage) ==
  ProceedTo(q, text, Advance(text, todo, stage, q.lenient))

\* The first synchronous run of anonymizeMessage(message, {lenientNames})
BeginAnonymize(kind, message, lenient) ==
  Proceed([IdleReq EXCEPT !.kind = kind, !.input = message, !.message = message,
                          !.lenient = lenient, !.bodyType = "string",
                          !.downAll = ~StoreReachable],
          message, StrictItems(message), "strict")

\* generateToken has returned formattedToken for the head item: the match is
\* replaced and anonymizeMessage runs on
AfterReturn(q, value, formattedToken) ==
  [Proceed(q, ApplyItem(q.text, Head(q.todo), formattedToken), Tail(q.todo), q.stage)
     EXCEPT !.ret = <<value, formattedToken>>]

\* The answer of /anonymize, kept by the client
AnswerOf(q) == [message |-> q.input, output |-> q.text, epoch |-> epoch]

\* The client keeps the answer of a finished /anonymize request
Answered(r) ==
  lastAnon' = IF reqs'[r].pc = "done" /\ reqs'[r].kind = "anonymize"
              THEN AnswerOf(reqs'[r]) ELSE lastAnon

Return(r, q, value, formattedToken) ==
  /\ reqs' = [reqs EXCEPT ![r] = AfterReturn(q, value, formattedToken)]
  /\ issued' = issued \cup {<<value, formattedToken>>}
  /\ Answered(r)

\* No validation error: the handler goes on
NoError == [status |-> 0, body |-> <<>>]

\* Checks without the typeof test: not the program's
AnonymizeValidationLax(message) ==
  IF Falsy(message)
  THEN [status |-> 400, body |-> ErrorJson(ResponseTexts.ErrBadRequest, ResponseTexts.DetMessageRequired)]
  ELSE NoError

\* The checks of POST /anonymize on req.body.message
AnonymizeValidation(message) ==
  IF Falsy(message)
  THEN [status |-> 400, body |-> ErrorJson(ResponseTexts.ErrBadRequest, ResponseTexts.DetMessageRequired)]
  ELSE IF message.type # "string"
  THEN [status |-> 400, body |-> ErrorJson(ResponseTexts.ErrBadRequest, ResponseTexts.DetMessageString)]
  ELSE NoError

\* The checks of POST /deanonymize on req.body.anonymizedMessage
DeanonymizeValidation(anonymizedMessage) ==
  IF Falsy(anonymizedMessage)
  THEN [status |-> 400, body |-> ErrorJson(ResponseTexts.ErrBadRequest, ResponseTexts.DetAnonymizedRequired)]
  ELSE IF anonymizedMessage.type # "string"
  THEN [status |-> 400, body |-> ErrorJson(ResponseTexts.ErrBadRequest, ResponseTexts.DetAnonymizedString)]
  ELSE NoError

\* The checks of POST /secureChatGPT: the provider client first, then
\* req.body.prompt
SecureValidation(configured, prompt) ==
  IF ~configured
  THEN [status |-> 501, body |-> ErrorJson(ResponseTexts.ErrNotImplemented, ResponseTexts.DetNotConfigured)]
  ELSE IF Falsy(prompt) \/ prompt.type # "string"
  THEN [status |-> 400, body |-> ErrorJson(ResponseTexts.ErrBadRequest, ResponseTexts.DetPromptRequired)]
  ELSE NoError

\* return res.status(...).json(...) of a check: the handler ends there
Rejected(kind, body, err) ==
  [IdleReq EXCEPT !.kind = kind, !.pc = "rejected", !.bodyType = body.type,
                  !.status = err.status, !.error = err.body]

\* The catch of a handler: status 500 and the handler's fixed details
Thrown(q, details) ==
  [q EXCEPT !.pc = "failed", !.status = 500, !.error = ErrorJson(ResponseTexts.ErrInternal, details)]

\* POST /anonymize: the checks of the body, then anonymizeMessage(message);
\* a message that is not a string makes anonymizeMessage throw
StartAnonymize(r) ==
  /\ CanStart(r)
  /\ \E message \in {JsString(m) : m \in AnonymizeMessages} \cup InvalidBodies :
       reqs' = [reqs EXCEPT ![r] =
         IF AnonymizeValidation(message) # NoError
         THEN Rejected("anonymize", message, AnonymizeValidation(message))
         ELSE IF message.type # "string"
         THEN Thrown(Rejected("anonymize", message, NoError), ResponseTexts.DetProcessing)
         ELSE BeginAnonymize("anonymize", message.value, FALSE)]
  /\ Answered(r)
  /\ started' = started + 1
  /\ UNCHANGED <<tokenCache, reverseTokenCache, db, conn, stats, epoch, inflight, issued, openAI,
                 server>>

\* POST /secureChatGPT: the checks, then anonymizeMessage(prompt,
\* { lenientNames: true })
StartSecure(r) ==
  /\ CanStart(r)
  /\ \E prompt \in {JsString(p) : p \in SecurePrompts} \cup InvalidBodies :
       reqs' = [reqs EXCEPT ![r] =
         IF SecureValidation(openAI, prompt) # NoError
         THEN Rejected("secure", prompt, SecureValidation(openAI, prompt))
         ELSE BeginAnonymize("secure", prompt.value, SecureLenientNames)]
  /\ started' = started + 1
  /\ UNCHANGED <<tokenCache, reverseTokenCache, db, conn, stats, epoch, inflight,
                 lastAnon, issued, openAI, server>>

\* A create path that goes to the insert with the maps as they were: not the
\* program's
StoreInMemoryLater(before, after) == before

\* The maps when the create path reaches the insert: tokenCache.set and
\* reverseTokenCache.set have run
StoreInMemory(before, after) == after

\* The create path of generateToken: a new token, stored in both maps at
\* once, then saved when the store is connected
Create(r, q, value, normalizedValue) ==
  LET item   == Head(q.todo)
      token  == NewToken(normalizedValue)
      caches == StoreInMemory(Caches, CacheSet(Caches, normalizedValue, token, item.type))
  IN  /\ tokenCache' = caches.fwd
      /\ reverseTokenCache' = caches.rev
      /\ IF isDbConnected
         THEN /\ reqs' = [reqs EXCEPT ![r] =
                   [q EXCEPT !.pc = "save", !.usedStore = TRUE, !.path = "created",
                             !.pend = [originalValue |-> normalizedValue,
                                       token |-> token, type |-> item.type,
                                       usageCount |-> 0, createdAt |-> epoch,
                                       lastUsedAt |-> started]]]
              /\ UNCHANGED <<issued, lastAnon>>
         ELSE Return(r, [q EXCEPT !.path = "created"], value,
                     FormatToken(item.type, token))

\* A cache hit that answers with the type asked for: not the program's
HitTypeRequested(existingType, type) == type

\* The type a cache hit answers with: existingType, whatever type was asked for
HitType(existingType, type) == existingType

\* generateToken(value, type) up to its first await: the cache hit, the
\* store query, or the create path when the store is not connected
GenerateToken(r) ==
  LET q     == reqs[r]
      value == GenValue(Head(q.todo))
      normalizedValue == NormalizeValue(value)
  IN  /\ q.pc = "gen"
      /\ IF normalizedValue \in DOMAIN tokenCache
         THEN LET existingToken == tokenCache[normalizedValue]
                  existingType  == IF existingToken \in DOMAIN reverseTokenCache
                                   THEN reverseTokenCache[existingToken].type
                                   ELSE "undefined"
              IN  /\ Return(r, [q EXCEPT !.path = "hit", !.storeOps = 0], value,
                            FormatToken(HitType(existingType, Head(q.todo).type),
                                        existingToken))
                  /\ UNCHANGED <<tokenCache, reverseTokenCache>>
         ELSE IF isDbConnected
         THEN /\ reqs' = [reqs EXCEPT ![r] = [q EXCEPT !.pc = "find", !.usedStore = TRUE,
                                                       !.storeOps = 0]]
              /\ UNCHANGED <<tokenCache, reverseTokenCache, issued, lastAnon>>
         ELSE Create(r, [q EXCEPT !.storeOps = 0], value, normalizedValue)
      /\ UNCHANGED <<db, conn, stats, epoch, started, inflight, openAI, server>>

\* A store hit that answers with the type asked for: not the program's
DocFormatRequested(existingDoc, type) == FormatToken(type, existingDoc.token)

\* `${docType}_${token}` of a document found in the store, whatever type was
\* asked for
DocFormat(existingDoc, type) == FormatToken(existingDoc.type, existingDoc.token)

\* await Token.findByOriginalValue(normalizedValue) settles: a document (into
\* both maps, its type and token returned), none, or an error (caught); the
\* last two go on to the create path
FindByOriginalValueDone(r) ==
  LET q     == reqs[r]
      value == GenValue(Head(q.todo))
      normalizedValue == NormalizeValue(value)
  IN  /\ q.pc = "find"
      /\ \E ok \in BOOLEAN :
           /\ ok => StoreReachable
           /\ LET docs == IF ok THEN findByOriginalValue(normalizedValue) ELSE {}
                  q1   == [q EXCEPT !.faulted = q.faulted \/ ~ok,
                                    !.storeOps = IF ok THEN 1 ELSE 0]
              IN  IF docs # {}
                  THEN LET existingDoc == CHOOSE d \in docs : TRUE
                           caches == CacheSet(Caches, normalizedValue,
                                              existingDoc.token, existingDoc.type)
                       IN  /\ tokenCache' = caches.fwd
                           /\ reverseTokenCache' = caches.rev
                           /\ Return(r, [q1 EXCEPT !.path = "store"], value,
                                     DocFormat(existingDoc, Head(q.todo).type))
                  ELSE Create(r, q1, value, normalizedValue)
      /\ UNCHANGED <<db, conn, stats, epoch, started, inflight, openAI, server>>

\* await newToken.save() settles: the document is inserted, or the insert
\* fails with a duplicate key (code 11000) or another error; both are caught
\* and generateToken returns formattedToken
SaveDone(r) ==
  LET q   == reqs[r]
      doc == q.pend
  IN  /\ q.pc = "save"
      /\ \E ok \in BOOLEAN :
           /\ ok => StoreReachable
           /\ db' = IF ok /\ ~DuplicateKey(doc) THEN db \cup {doc} ELSE db
           /\ Return(r, [q EXCEPT !.faulted = q.faulted \/ ~ok,
                                   !.storeOps = q.storeOps + (IF ok THEN 1 ELSE 0)],
                     GenValue(Head(q.todo)), FormatToken(doc.type, doc.token))
      /\ UNCHANGED <<tokenCache, reverseTokenCache, conn, stats, epoch, started, inflight, openAI,
                     server>>

\* deanonymizeMessage(text): the tokens of the text are collected first
BeginDeanonymize(q, text) ==
  LET tokens == TokenScan(text, 1)
  IN  [q EXCEPT !.message = text, !.text = text, !.todo = tokens,
                !.stage = "tokens", !.pend = NoPend,
                !.known = {d.token : d \in db},
                !.pc = IF tokens = <<>> THEN "done" ELSE "tok"]

\* The loop of deanonymizeMessage moves to the next token
NextToken(q, text) ==
  [q EXCEPT !.text = text, !.todo = Tail(q.todo), !.pend = NoPend,
            !.pc = IF Tail(q.todo) = <<>> THEN "done" ELSE "tok"]

\* A deanonymizeMessage that throws at a token it cannot resolve: not the
\* program's
LeaveTokenThrow(q, match, fault) == [q EXCEPT !.pc = "failed"]

\* originalData is undefined: the token stays in the text (a warning is
\* logged); `fault` tells that the store was not asked or did not answer
LeaveToken(q, match, fault) ==
  NextToken([q EXCEPT !.unresolved = Append(q.unresolved, match),
                      !.lost = IF fault THEN q.lost \cup {match} ELSE q.lost,
                      !.faulted = q.faulted \/ fault], q.text)

\* A replacement only for a token written with the type of its mapping: not
\* the program's
SubstituteSameType(q, match, value) ==
  IF \E t \in DOMAIN reverseTokenCache :
       /\ t = extractToken(match)
       /\ TypeText(reverseTokenCache[t].type) = getTokenType(match)
  THEN NextToken(q, Replace(q.text, match, value))
  ELSE NextToken(q, q.text)

\* deanonymized.replace(match, originalData.value)
Substitute(q, match, value) == NextToken(q, Replace(q.text, match, value))

\* POST /deanonymize with a string body: a text of the client's own, or the
\* last answer of /anonymize
StartDeanonymize(r) ==
  /\ CanStart(r)
  /\ \/ \E text \in DeanonymizeTexts \cup (IF lastAnon = NoAnon THEN {} ELSE {lastAnon.output}) :
          LET own == lastAnon # NoAnon /\ text = lastAnon.output
          IN  reqs' = [reqs EXCEPT ![r] =
                BeginDeanonymize(
                  [IdleReq EXCEPT !.kind = "deanonymize", !.input = text,
                                  !.bodyType = "string",
                                  !.origin = IF own THEN lastAnon.message ELSE <<>>,
                                  !.originEpoch = IF own THEN lastAnon.epoch ELSE 0,
                                  !.downAll = ~StoreReachable], text)]
     \/ \E anonymizedMessage \in InvalidBodies :
          reqs' = [reqs EXCEPT ![r] =
            IF DeanonymizeValidation(anonymizedMessage) # NoError
            THEN Rejected("deanonymize", anonymizedMessage,
                          DeanonymizeValidation(anonymizedMessage))
            ELSE Thrown(Rejected("deanonymize", anonymizedMessage, NoError),
                        ResponseTexts.DetProcessing)]
  /\ started' = started + 1
  /\ UNCHANGED <<tokenCache, reverseTokenCache, db, conn, stats, epoch, inflight,
                 lastAnon, issued, openAI, server>>

\* One turn of the loop of deanonymizeMessage up to its first await: the
\* reverse cache, then the store when it is connected
ResolveToken(r) ==
  LET q     == reqs[r]
      match == Head(q.todo)
      token == extractToken(match)
  IN  /\ q.pc = "tok"
      /\ reqs' = [reqs EXCEPT ![r] =
           IF token = <<>> THEN NextToken(q, q.text)
           ELSE IF token \in DOMAIN reverseTokenCache
           THEN Substitute(q, match, reverseTokenCache[token].value)
           ELSE IF isDbConnected
           THEN [q EXCEPT !.pc = "findTok", !.usedStore = TRUE]
           ELSE LeaveToken(q, match, TRUE)]
      /\ UNCHANGED <<tokenCache, reverseTokenCache, db, conn, stats, epoch, started,
                     inflight, lastAnon, issued, openAI, server>>

\* await Token.findByToken(token) settles: a document goes into both maps and
\* its usage is then updated; none, or an error (caught), leaves the token
FindByTokenDone(r) ==
  LET q     == reqs[r]
      match == Head(q.todo)
      token == extractToken(match)
  IN  /\ q.pc = "findTok"
      /\ \E ok \in BOOLEAN :
           /\ ok => StoreReachable
           /\ LET docs == IF ok THEN findByToken(token) ELSE {}
              IN  IF docs # {}
                  THEN LET tokenDoc == CHOOSE d \in docs : TRUE
                           caches   == CacheSet(Caches, tokenDoc.originalValue, token,
                                                tokenDoc.type)
                       IN  /\ tokenCache' = caches.fwd
                           /\ reverseTokenCache' = caches.rev
                           /\ reqs' = [reqs EXCEPT ![r] =
                                [q EXCEPT !.pc = "incr", !.pend = tokenDoc]]
                  ELSE /\ reqs' = [reqs EXCEPT ![r] = LeaveToken(q, match, ~ok)]
                       /\ UNCHANGED <<tokenCache, reverseTokenCache>>
      /\ UNCHANGED <<db, conn, stats, epoch, started, inflight, lastAnon, issued, openAI,
                     server>>

\* await tokenDoc.incrementUsage() settles: usageCount of the fetched document
\* plus one and lastUsedAt = new Date() are saved, or the save fails (caught);
\* the token is replaced by the stored value either way. Dates are counted
\* in requests started.
IncrementUsageDone(r) ==
  LET q        == reqs[r]
      tokenDoc == q.pend
  IN  /\ q.pc = "incr"
      /\ \E ok \in BOOLEAN :
           /\ ok => StoreReachable
           /\ db' = IF ok
                    THEN {IF d.originalValue = tokenDoc.originalValue
                          THEN [d EXCEPT !.usageCount = tokenDoc.usageCount + 1,
                                         !.lastUsedAt = started]
                          ELSE d : d \in db}
                    ELSE db
           /\ reqs' = [reqs EXCEPT ![r] =
                Substitute([q EXCEPT !.storeOps = IF ok THEN 1 ELSE 0],
                           Head(q.todo), tokenDoc.originalValue)]
      /\ UNCHANGED <<tokenCache, reverseTokenCache, conn, stats, epoch, started,
                     inflight, lastAnon, issued, openAI, server>>

\* What the provider may answer to a prompt: the prompt back, or a text with
\* a token of its own making
LlmAnswers(prompt) == {prompt, UnknownTokenText}

\* prompt.trim().length === 0 makes completeText throw
IsBlank(s) == \A i \in 1..Len(s) : s[i] \in WhiteSpace

\* A catch that reports the text it was working on: not the program's
SecureFailureDetailsEcho(prompt, anonymizedPrompt) == anonymizedPrompt

\* The details of the catch of /secureChatGPT: a fixed text, whatever the
\* prompt and its anonymized form
SecureFailureDetails(prompt, anonymizedPrompt) == ResponseTexts.DetSecureFailed

\* await openAI.completeText(anonymizedPrompt, ...) settles: the answer is
\* deanonymized, or the call throws and the request ends with status 500
CompleteTextDone(r) ==
  LET q == reqs[r]
  IN  /\ q.pc = "llm"
      /\ \E ok \in BOOLEAN :
           IF ok /\ ~IsBlank(q.sent[Len(q.sent)])
           THEN \E aiResponse \in LlmAnswers(q.sent[Len(q.sent)]) :
                  reqs' = [reqs EXCEPT ![r] = BeginDeanonymize(q, aiResponse)]
           ELSE reqs' = [reqs EXCEPT ![r] =
                  Thrown(q, SecureFailureDetails(q.input, q.sent[Len(q.sent)]))]
      /\ UNCHANGED <<tokenCache, reverseTokenCache, db, conn, stats, epoch, started,
                     inflight, lastAnon, issued, openAI, server>>

\* GET /stats up to its await: the count is asked for only when connected
StatsStart ==
  /\ CanAccept
  /\ started' = started + 1
  /\ stats' = IF isDbConnected
              THEN [stats EXCEPT !.pc = "count"]
              ELSE [pc |-> "done", databaseConnected |-> isDbConnected,
                    down |-> ~StoreReachable]
  /\ UNCHANGED <<tokenCache, reverseTokenCache, db, conn, reqs, epoch, inflight,
                 lastAnon, issued, openAI, server>>

\* await Token.countDocuments() settles: the answer reports readyState === 1,
\* and false when the count threw
StatsCountDone ==
  /\ stats.pc = "count"
  /\ \E ok \in BOOLEAN :
       /\ ok => StoreReachable
       /\ stats' = [pc |-> "done", databaseConnected |-> ok /\ isDbConnected,
                    down |-> ~StoreReachable]
  /\ UNCHANGED <<tokenCache, reverseTokenCache, db, conn, reqs, epoch, started,
                 inflight, lastAnon, issued, openAI, server>>

-----------------------------------------------------------------------------
(* The store connection and the process                                    *)

\* The connection to the store is lost
Disconnect ==
  /\ conn = "up"
  /\ conn' = "down"
  /\ UNCHANGED <<tokenCache, reverseTokenCache, db, reqs, stats, epoch, started,
                 inflight, lastAnon, issued, openAI, server>>

\* mongoose reconnects a connection that was established once
Reconnect ==
  /\ conn = "down"
  /\ conn' = "up"
  /\ reqs' = [s \in Slots |-> [reqs[s] EXCEPT !.downAll = FALSE]]
  /\ UNCHANGED <<tokenCache, reverseTokenCache, db, stats, epoch, started,
                 inflight, lastAnon, issued, openAI, server>>

\* The process stops and starts again: the requests under way are lost, both
\* maps start empty, connectDatabase connects (or fails, or has no URI) and
\* loadTokensIntoCache loads every document (or fails, which is caught), the
\* provider client is built when OPENAI_API_KEY is set; the server listens
\* after that
Restart ==
  /\ epoch < MaxRestarts
  /\ epoch' = epoch + 1
  /\ reqs' = [s \in Slots |-> IdleReq]
  /\ stats' = IdleStats
  /\ \E connected \in BOOLEAN, loaded \in BOOLEAN :
       /\ loaded => connected
       /\ conn' = IF connected THEN "up" ELSE "never"
       /\ LET caches == IF loaded
                        THEN LoadDocs(db, [fwd |-> EmptyMap, rev |-> EmptyMap])
                        ELSE [fwd |-> EmptyMap, rev |-> EmptyMap]
          IN  /\ tokenCache' = caches.fwd
              /\ reverseTokenCache' = caches.rev
  /\ openAI' \in BOOLEAN
  /\ UNCHANGED <<db, started, inflight, lastAnon, issued, server>>

-----------------------------------------------------------------------------
(* Specification                                                           *)

\* The server listening after its first start on an empty collection
InitCommon ==
  /\ tokenCache = EmptyMap
  /\ reverseTokenCache = EmptyMap
  /\ db = {}
  /\ conn \in {"up", "never"}
  /\ reqs = [s \in Slots |-> IdleReq]
  /\ stats = IdleStats
  /\ epoch = 0
  /\ started = 0
  /\ lastAnon = NoAnon
  /\ issued = {}
  /\ openAI \in BOOLEAN
  /\ server = "listening"

\* The clients send one request at a time
Init == InitCommon /\ inflight = 1

Next ==
  \/ \E r \in Slots : StartAnonymize(r)
  \/ \E r \in Slots : StartDeanonymize(r)
  \/ \E r \in Slots : StartSecure(r)
  \/ \E r \in Slots : GenerateToken(r)
  \/ \E r \in Slots : FindByOriginalValueDone(r)
  \/ \E r \in Slots : SaveDone(r)
  \/ \E r \in Slots : ResolveToken(r)
  \/ \E r \in Slots : FindByTokenDone(r)
  \/ \E r \in Slots : IncrementUsageDone(r)
  \/ \E r \in Slots : CompleteTextDone(r)
  \/ StatsStart
  \/ StatsCountDone
  \/ Disconnect
  \/ Reconnect
  \/ Restart

Spec == Init /\ [][Next]_vars

-----------------------------------------------------------------------------
(* generateToken called directly                                           *)

\* generateToken(value, type) is called: the call is under way at its
\* first statement
StartGenerate(r) ==
  /\ CanStart(r)
  /\ \E value \in GenerateValues, type \in PiiTypes :
       reqs' = [reqs EXCEPT ![r] =
         [IdleReq EXCEPT !.kind = "generate", !.pc = "gen", !.input = value,
                         !.message = value, !.text = value, !.stage = "strict",
                         !.todo = <<Item(value, type, "first")>>,
                         !.argType = type, !.bodyType = "string",
                         !.fresh = /\ NormalizeValue(value) \notin DOMAIN tokenCache
                                   /\ findByOriginalValue(NormalizeValue(value)) = {},
                         !.downAll = ~StoreReachable]]
  /\ started' = started + 1
  /\ UNCHANGED <<tokenCache, reverseTokenCache, db, conn, stats, epoch, inflight,
                 lastAnon, issued, openAI, server>>

\* Two callers at a time
InitGen == InitCommon /\ inflight = 2

NextGen ==
  \/ \E r \in Slots : StartGenerate(r)
  \/ \E r \in Slots : GenerateToken(r)
  \/ \E r \in Slots : FindByOriginalValueDone(r)
  \/ \E r \in Slots : SaveDone(r)
  \/ Disconnect
  \/ Reconnect
  \/ Restart

\* Calls of generateToken, two at a time, with outages and restarts
SpecGen == InitGen /\ [][NextGen]_vars

\* The clients keep two requests in flight; OPENAI_API_KEY is not set
InitConc == InitCommon /\ inflight = 2 /\ ~openAI

NextConc ==
  \/ \E r \in Slots : StartAnonymize(r)
  \/ \E r \in Slots : StartDeanonymize(r)
  \/ \E r \in Slots : GenerateToken(r)
  \/ \E r \in Slots : FindByOriginalValueDone(r)
  \/ \E r \in Slots : SaveDone(r)
  \/ \E r \in Slots : ResolveToken(r)
  \/ \E r \in Slots : FindByTokenDone(r)
  \/ \E r \in Slots : IncrementUsageDone(r)
  \/ Disconnect
  \/ Reconnect
  \/ Restart /\ ~openAI'

\* POST /anonymize and POST /deanonymize, two requests at a time, with
\* outages and restarts
SpecConc == InitConc /\ [][NextConc]_vars

\* The collection an earlier lifetime of the process left: the mapping of
\* one email, never used
StoredDocs ==
  {[originalValue |-> NormalizeValue(v), token |-> NewToken(NormalizeValue(v)),
    type |-> "EMAIL", usageCount |-> 0, createdAt |-> 0, lastUsedAt |-> 0] :
     v \in GenerateValues}

\* The server listening after a start on that collection: connectDatabase
\* has connected, loadTokensIntoCache has loaded the documents or has failed
\* (caught); the clients keep two requests in flight
InitStored ==
  /\ db = StoredDocs
  /\ \E loaded \in BOOLEAN :
       /\ tokenCache = IF loaded
                       THEN LoadDocs(db, [fwd |-> EmptyMap, rev |-> EmptyMap]).fwd
                       ELSE EmptyMap
       /\ reverseTokenCache = IF loaded
                              THEN LoadDocs(db, [fwd |-> EmptyMap, rev |-> EmptyMap]).rev
                              ELSE EmptyMap
  /\ conn = "up"
  /\ reqs = [s \in Slots |-> IdleReq]
  /\ stats = IdleStats
  /\ epoch = 1
  /\ started = 0
  /\ lastAnon = NoAnon
  /\ issued = {}
  /\ openAI = FALSE
  /\ server = "listening"
  /\ inflight = 2

NextStored ==
  \/ \E r \in Slots : StartAnonymize(r)
  \/ \E r \in Slots : StartDeanonymize(r)
  \/ \E r \in Slots : GenerateToken(r)
  \/ \E r \in Slots : FindByOriginalValueDone(r)
  \/ \E r \in Slots : SaveDone(r)
  \/ \E r \in Slots : ResolveToken(r)
  \/ \E r \in Slots : FindByTokenDone(r)
  \/ \E r \in Slots : IncrementUsageDone(r)
  \/ Disconnect
  \/ Reconnect

\* POST /anonymize and POST /deanonymize, two requests at a time, on a
\* collection that holds a mapping, with outages
SpecStored == InitStored /\ [][NextStored]_vars

\* POST /anonymize with a message of the detection cases: the body passes
\* the checks of the handler, and anonymizeMessage(message) starts
StartDetect(r) ==
  /\ CanStart(r)
  /\ \E message \in DetectMessages :
       reqs' = [reqs EXCEPT ![r] = BeginAnonymize("anonymize", message, FALSE)]
  /\ Answered(r)
  /\ started' = started + 1
  /\ UNCHANGED <<tokenCache, reverseTokenCache, db, conn, stats, epoch, inflight, issued, openAI,
                 server>>

\* The clients send one request at a time
InitDetect == InitCommon /\ inflight = 1

NextDetect ==
  \/ \E r \in Slots : StartDetect(r)
  \/ \E r \in Slots : GenerateToken(r)
  \/ \E r \in Slots : FindByOriginalValueDone(r)
  \/ \E r \in Slots : SaveDone(r)
  \/ Disconnect
  \/ Reconnect
  \/ Restart

\* POST /anonymize on the detection cases, with outages and restarts
SpecDetect == InitDetect /\ [][NextDetect]_vars

-----------------------------------------------------------------------------
(* The startup routine, step by step                                       *)

\* The process stops and starts again: the requests under way are lost, the
\* module is loaded (both maps empty, no provider client) and the startup
\* routine is at await connectDatabase()
StartProcess ==
  /\ epoch < MaxRestarts
  /\ epoch' = epoch + 1
  /\ reqs' = [s \in Slots |-> IdleReq]
  /\ stats' = IdleStats
  /\ tokenCache' = EmptyMap
  /\ reverseTokenCache' = EmptyMap
  /\ conn' = "never"
  /\ openAI' = FALSE
  /\ server' = "connecting"
  /\ UNCHANGED <<db, started, inflight, lastAnon, issued>>

\* A startup that ends the process when the connection fails: not the
\* program's
ConnectDoneFatal ==
  /\ server = "connecting"
  /\ \E connected \in BOOLEAN :
       /\ conn' = IF connected THEN "up" ELSE "never"
       /\ server' = IF connected THEN "loading" ELSE "exited"
  /\ UNCHANGED <<tokenCache, reverseTokenCache, db, reqs, stats, epoch, started,
                 inflight, lastAnon, issued, openAI>>

\* connectDatabase: mongoose.connect settles.  Connected, it goes on to
\* loadTokensIntoCache; without MONGODB_URI, or when the connection fails
\* (caught), connectDatabase returns
ConnectDone ==
  /\ server = "connecting"
  /\ \E connected \in BOOLEAN :
       /\ conn' = IF connected THEN "up" ELSE "never"
       /\ server' = IF connected THEN "loading" ELSE "unloaded"
  /\ UNCHANGED <<tokenCache, reverseTokenCache, db, reqs, stats, epoch, started,
                 inflight, lastAnon, issued, openAI>>

\* loadTokensIntoCache: Token.find({}) settles.  Every document goes into
\* both maps; when the connection is not ready or the query fails (caught)
\* the maps stay as they are.  connectDatabase returns
LoadDone ==
  /\ server = "loading"
  /\ \E ok \in BOOLEAN :
       /\ ok => StoreReachable
       /\ LET caches == IF ok THEN LoadDocs(db, Caches) ELSE Caches
          IN  /\ tokenCache' = caches.fwd
              /\ reverseTokenCache' = caches.rev
       /\ server' = IF ok THEN "loaded" ELSE "unloaded"
  /\ UNCHANGED <<db, conn, reqs, stats, epoch, started, inflight, lastAnon, issued, openAI>>

\* After await connectDatabase(): the provider client is built when
\* OPENAI_API_KEY is set, and app.listen is called
Listen ==
  /\ server \in {"loaded", "unloaded"}
  /\ openAI' \in BOOLEAN
  /\ server' = "listening"
  /\ UNCHANGED <<tokenCache, reverseTokenCache, db, conn, reqs, stats, epoch, started,
                 inflight, lastAnon, issued>>

\* The process at its first start on an empty collection, the startup
\* routine at await connectDatabase(); the clients send one request at a time
InitBoot ==
  /\ tokenCache = EmptyMap
  /\ reverseTokenCache = EmptyMap
  /\ db = {}
  /\ conn = "never"
  /\ reqs = [s \in Slots |-> IdleReq]
  /\ stats = IdleStats
  /\ epoch = 0
  /\ started = 0
  /\ lastAnon = NoAnon
  /\ issued = {}
  /\ openAI = FALSE
  /\ server = "connecting"
  /\ inflight = 1

NextBoot ==
  \/ StartProcess
  \/ ConnectDone
  \/ LoadDone
  \/ Listen
  \/ \E r \in Slots : StartAnonymize(r)
  \/ \E r \in Slots : StartDeanonymize(r)
  \/ \E r \in Slots : GenerateToken(r)
  \/ \E r \in Slots : FindByOriginalValueDone(r)
  \/ \E r \in Slots : SaveDone(r)
  \/ \E r \in Slots : ResolveToken(r)
  \/ \E r \in Slots : FindByTokenDone(r)
  \/ \E r \in Slots : IncrementUsageDone(r)
  \/ Disconnect
  \/ Reconnect

\* The startup routine and POST /anonymize, POST /deanonymize, with outages
\* and restarts
SpecBoot == InitBoot /\ [][NextBoot]_vars

\* The promises the startup routine awaits settle (mongoose.connect within
\* serverSelectionTimeoutMS), and its synchronous code runs on
SpecBootFair ==
  SpecBoot /\ WF_vars(ConnectDone) /\ WF_vars(LoadDone) /\ WF_vars(Listen)

-----------------------------------------------------------------------------
(* Properties                                                              *)

\* POST /anonymize has answered: anonymizeMessage has returned q.text
AnonymizeDone(q) == q.kind = "anonymize" /\ q.pc = "done"

\* deanonymizeMessage has returned q.text for q.message
DeanonymizeDone(q) == q.stage = "tokens" /\ q.pc = "done"

\* POST /deanonymize has answered for the answer /anonymize gave for q.origin
\* in this process
RoundTripDone(q) ==
  /\ q.kind = "deanonymize"
  /\ DeanonymizeDone(q)
  /\ q.origin # <<>>
  /\ q.originEpoch = epoch

\* The tokens deanonymizeMessage finds in a text
TokensOf(text) == {TokenScan(text, 1)[i] : i \in 1..Len(TokenScan(text, 1))}

\* The elements of an array
SeqToSet(s) == {s[i] : i \in 1..Len(s)}

\* The number of occurrences of w in the text s, counted from the left
RECURSIVE OccurrencesFrom(_, _, _)
OccurrencesFrom(s, w, i) ==
  IF i + Len(w) - 1 > Len(s) THEN 0
  ELSE IF OccursAt(s, w, i) THEN 1 + OccurrencesFrom(s, w, i + Len(w))
  ELSE OccurrencesFrom(s, w, i + 1)

Occurrences(s, w) == OccurrencesFrom(s, w, 1)

\* C1: deanonymizeMessage(anonymizeMessage(t)) in the same process returns
\* exactly t, here for the message of src/test_deanonymize.js, which holds
\* ordinary words, a capitalized name, an email and a phone number.
C1_RoundTripExact ==
  \A r \in Slots :
    (RoundTripDone(reqs[r]) /\ reqs[r].origin = TestMessage)
      => reqs[r].text = reqs[r].origin

\* C2: over every sequence of requests, outages, reconnections and restarts,
\* the body of the token every generateToken call returned for a value is the
\* first 8 hex characters of the SHA-256 digest of the lower-cased value.
C2_Determinism ==
  \A p \in issued :
    /\ extractToken(p[2]) = SubSeq(Sha256Hex8(toLowerCase(p[1])), 1, 8)
    /\ Len(extractToken(p[2])) = 8

\* C2 witness: after a restart generateToken has returned the token of a value
\* whose mapping was stored before the restart
C2_Witness ==
  \E r \in Slots :
    /\ epoch = 1
    /\ reqs[r].ret # <<>>
    /\ \E d \in db : d.createdAt = 0 /\ d.originalValue = toLowerCase(reqs[r].ret[1])
    /\ \E p \in issued : p[1] = reqs[r].ret[1]

\* C3: two raw values that differ only in letter case get the same formatted
\* token from generateToken, whichever came first.
C3_CaseInsensitive ==
  \A p, q \in issued :
    toLowerCase(p[1]) = toLowerCase(q[1]) => p[2] = q[2]

\* C3 witness: generateToken has returned for two values that differ in case
C3_Witness ==
  \E p, q \in issued : p[1] # q[1] /\ toLowerCase(p[1]) = toLowerCase(q[1])

\* C4: in the text anonymizeMessage returns, no occurrence of an email of the
\* message is left, and one EMAIL token stands where each occurrence stood.
C4_RepeatedEmail ==
  \A r \in Slots :
    AnonymizeDone(reqs[r]) =>
      \A e \in SeqToSet(EmailScan(reqs[r].input, 1)) :
        /\ ~Includes(reqs[r].text, e)
        /\ \E p \in issued :
             /\ p[1] = e
             /\ getTokenType(p[2]) = TypeText("EMAIL")
             /\ Occurrences(reqs[r].text, p[2]) = Occurrences(reqs[r].input, e)

\* C4 witness: anonymizeMessage has returned for the message with the same
\* email twice
C4_Witness ==
  \E r \in Slots :
    /\ AnonymizeDone(reqs[r])
    /\ reqs[r].input = ConsistencyMessage
    /\ Occurrences(reqs[r].input, EmailScan(reqs[r].input, 1)[1]) = 2

\* C5: anonymizeMessage returns "This message contains no personal
\* information." unchanged.
C5_NoPiiUnchanged ==
  \A r \in Slots :
    (AnonymizeDone(reqs[r]) /\ reqs[r].input = NoPiiMessage)
      => reqs[r].text = reqs[r].input

\* How many times deanonymizeMessage found no value for the token m
TimesLeft(q, m) == Cardinality({i \in 1..Len(q.unresolved) : q.unresolved[i] = m})

\* C6: deanonymizeMessage never throws; a token stays verbatim in the text
\* once for each time no value was found for it (it is in neither map, and
\* the store has no document for it or the lookup failed), and every other
\* token occurrence is replaced by the value of the token.
C6_FailOpen ==
  \A r \in Slots :
    /\ (reqs[r].stage = "tokens" => reqs[r].pc # "failed")
    /\ DeanonymizeDone(reqs[r]) =>
         \A m \in TokensOf(reqs[r].message) :
           /\ Occurrences(reqs[r].text, m) = TimesLeft(reqs[r], m)
           /\ TimesLeft(reqs[r], m) = Occurrences(reqs[r].message, m)
                => extractToken(m) \notin DOMAIN reverseTokenCache
           /\ TimesLeft(reqs[r], m) < Occurrences(reqs[r].message, m)
                => /\ extractToken(m) \in DOMAIN reverseTokenCache
                   /\ Includes(reqs[r].text, reverseTokenCache[extractToken(m)].value)

\* C6 witness: deanonymizeMessage has returned a text in which one token was
\* left and another was replaced
C6_Witness ==
  \E r \in Slots :
    /\ DeanonymizeDone(reqs[r])
    /\ reqs[r].unresolved # <<>>
    /\ TokensOf(reqs[r].message) \ SeqToSet(reqs[r].unresolved) # {}

\* C7: a /anonymize or /deanonymize request served while the store is
\* unreachable (the connection is not established) asks the store nothing, waits for nothing and does not fail;
\* the tokens /anonymize gave are all resolved by a later /deanonymize in the
\* same process; /stats answered while the store is unreachable reports
\* databaseConnected false.
C7_GracefulDegradation ==
  /\ \A r \in Slots :
       /\ (reqs[r].kind \in {"anonymize", "deanonymize"} /\ reqs[r].downAll) =>
            /\ ~reqs[r].usedStore
            /\ reqs[r].pc \in {"gen", "tok", "done"}
       /\ RoundTripDone(reqs[r]) => reqs[r].unresolved = <<>>
  /\ (stats.pc = "done" /\ stats.down) => ~stats.databaseConnected

\* C7 witness: with the store never connected, /deanonymize has resolved
\* every token of the answer /anonymize gave in the same process
C7_Witness ==
  \E r \in Slots :
    /\ conn = "never"
    /\ epoch = 0
    /\ RoundTripDone(reqs[r])
    /\ reqs[r].downAll
    /\ TokensOf(reqs[r].message) # {}
    /\ reqs[r].text # reqs[r].message

\* C8: no request fails because of the store (only the provider call of
\* /secureChatGPT fails a request), and once generateToken has returned a
\* formatted token both maps hold the mapping.
C8_StoreErrorsAbsorbed ==
  \A r \in Slots :
    /\ reqs[r].pc = "failed" =>
         (reqs[r].kind = "secure" /\ reqs[r].stage = "end" /\ Len(reqs[r].sent) = 1)
    /\ reqs[r].ret # <<>> =>
         /\ getTokenType(reqs[r].ret[2]) \in {TypeText(t) : t \in PiiTypes}
         /\ Len(extractToken(reqs[r].ret[2])) = 8
         /\ NormalizeValue(reqs[r].ret[1]) \in DOMAIN tokenCache
         /\ tokenCache[NormalizeValue(reqs[r].ret[1])] = extractToken(reqs[r].ret[2])
         /\ extractToken(reqs[r].ret[2]) \in DOMAIN reverseTokenCache
         /\ reverseTokenCache[extractToken(reqs[r].ret[2])].value
              = NormalizeValue(reqs[r].ret[1])

\* C8 witness: generateToken has returned in a request in which a store
\* operation failed
C8_Witness ==
  \E r \in Slots :
    /\ reqs[r].kind = "anonymize"
    /\ reqs[r].usedStore
    /\ reqs[r].faulted
    /\ reqs[r].ret # <<>>

\* The mappings the store holds
StoredMappings == {<<d.originalValue, d.token, d.type>> : d \in db}

\* C9: a stored mapping stays stored over every step, restarts included;
\* /deanonymize replaces every token the store held when the request came in,
\* unless the store was not asked or did not answer for it, by the stored
\* value; generateToken returns for a stored value the stored type and token.
C9_Persistence ==
  /\ [][StoredMappings \subseteq {<<d.originalValue, d.token, d.type>> : d \in db'}]_vars
  /\ [](\A r \in Slots :
          /\ (reqs[r].kind = "deanonymize" /\ DeanonymizeDone(reqs[r])) =>
               \A m \in TokensOf(reqs[r].message) :
                 (extractToken(m) \in reqs[r].known /\ m \notin reqs[r].lost) =>
                   /\ m \notin SeqToSet(reqs[r].unresolved)
                   /\ \E d \in db : /\ d.token = extractToken(m)
                                    /\ Includes(reqs[r].text, d.originalValue)
          /\ reqs[r].ret # <<>> =>
               \A d \in db :
                 d.originalValue = toLowerCase(reqs[r].ret[1]) =>
                   reqs[r].ret[2] = FormatToken(d.type, d.token))

\* C9 witness: after a restart /deanonymize has resolved, for the answer
\* /anonymize gave before the restart, every token from the stored mappings
C9_Witness ==
  \E r \in Slots :
    /\ epoch = 1
    /\ reqs[r].kind = "deanonymize"
    /\ DeanonymizeDone(reqs[r])
    /\ reqs[r].originEpoch = 0
    /\ reqs[r].origin # <<>>
    /\ TokensOf(reqs[r].message) # {}
    /\ \A m \in TokensOf(reqs[r].message) : extractToken(m) \in reqs[r].known
    /\ reqs[r].unresolved = <<>>

\* C10: /secureChatGPT calls the provider at most once, when anonymizeMessage
\* has returned and before deanonymizeMessage runs, with the text
\* anonymizeMessage(prompt, {lenientNames: true}) returns and never with the
\* prompt itself (every prompt of SecurePrompts holds a value to replace).
C10_OnlyAnonymizedToProvider ==
  \A r \in Slots :
    reqs[r].kind = "secure" =>
      /\ Len(reqs[r].sent) <= 1
      /\ reqs[r].pc \in {"gen", "find", "save"} => reqs[r].sent = <<>>
      /\ (reqs[r].pc = "llm" \/ reqs[r].stage = "tokens") => Len(reqs[r].sent) = 1
      /\ reqs[r].sent # <<>> =>
           /\ reqs[r].sent[1] = anonymizeMessage(reqs[r].input, TRUE)
           /\ reqs[r].sent[1] # reqs[r].input

\* C10 witness: /secureChatGPT has answered after one provider call
C10_Witness ==
  \E r \in Slots :
    /\ reqs[r].kind = "secure"
    /\ reqs[r].pc = "done"
    /\ Len(reqs[r].sent) = 1
    /\ reqs[r].sent[1] # reqs[r].input

-----------------------------------------------------------------------------
(* Errors of the HTTP handlers                                             *)

\* The request has been answered with an error
Failing(q) == q.pc \in {"rejected", "failed"}

\* The bodies /secureChatGPT answers an error with
SecureErrorBodies ==
  {ErrorJson(ResponseTexts.ErrNotImplemented, ResponseTexts.DetNotConfigured),
   ErrorJson(ResponseTexts.ErrBadRequest, ResponseTexts.DetPromptRequired),
   ErrorJson(ResponseTexts.ErrInternal, ResponseTexts.DetSecureFailed)}

\* C11: every failing /secureChatGPT request is answered with one of the
\* handler's fixed error bodies, which contains neither the prompt nor the
\* anonymized prompt and has no answer field; the status is 501 with the
\* 'not configured' body exactly when no provider client was built, and 500
\* with the processing-failure body when the provider call was made and
\* failed
C11_SecureFailuresFixed ==
  \A r \in Slots :
    LET q == reqs[r]
    IN  q.kind = "secure" /\ Failing(q) =>
          /\ q.error \in SecureErrorBodies
          /\ q.input # <<>> => ~Includes(q.error, q.input)
          /\ q.text # <<>> => ~Includes(q.error, q.text)
          /\ \A i \in 1..Len(q.sent) : ~Includes(q.error, q.sent[i])
          /\ ~Includes(q.error, <<"a", "n", "s", "w", "e", "r">>)
          /\ ~openAI <=> q.status = 501
          /\ q.status = 501 <=> q.error = ErrorJson(ResponseTexts.ErrNotImplemented, ResponseTexts.DetNotConfigured)
          /\ q.pc = "failed" <=> q.status = 500
          /\ q.pc = "failed" =>
                /\ q.error = ErrorJson(ResponseTexts.ErrInternal, ResponseTexts.DetSecureFailed)
                /\ Len(q.sent) = 1
                /\ q.text = q.sent[1]

\* A /secureChatGPT request whose provider call failed after the prompt was
\* anonymized
C11_Witness ==
  \E r \in Slots :
    /\ reqs[r].kind = "secure" /\ reqs[r].pc = "failed"
    /\ Len(reqs[r].sent) = 1
    /\ reqs[r].sent[1] # reqs[r].input

\* C12: a request to /anonymize or /deanonymize whose body field is missing
\* or is not a string is answered with status 400 at once: no call of
\* generateToken or of a lookup is made for it, and the step that answers it
\* leaves both maps and the store as they were
C12_BadBodyRejected ==
  /\ [](\A r \in Slots :
          LET q == reqs[r]
          IN  q.kind \in {"anonymize", "deanonymize"} /\ q.bodyType # "string" =>
                /\ q.pc = "rejected" /\ q.status = 400
                /\ q.ret = <<>> /\ q.todo = <<>> /\ q.known = {} /\ q.text = <<>>
                /\ ~q.usedStore)
  /\ [][\A r \in Slots :
          /\ reqs'[r] # reqs[r]
          /\ reqs'[r].kind \in {"anonymize", "deanonymize"}
          /\ reqs'[r].bodyType # "string"
          => /\ tokenCache' = tokenCache
             /\ reverseTokenCache' = reverseTokenCache
             /\ db' = db
             /\ issued' = issued]_vars

\* A /anonymize request with a number for a message rejected while the maps
\* and the store hold mappings
C12_Witness ==
  \E r \in Slots :
    /\ reqs[r].kind = "anonymize" /\ reqs[r].pc = "rejected"
    /\ reqs[r].bodyType = "number"
    /\ DOMAIN tokenCache # {} /\ db # {}

-----------------------------------------------------------------------------
(* generateToken                                                           *)

\* TYPE_ and exactly TokenLength characters of 0-9, a-f, TYPE one of the
\* three types
WellFormedToken(t) ==
  \E type \in PiiTypes :
    LET n == Len(TypeText(type))
    IN  /\ Len(t) = n + 1 + TokenLength
        /\ SubSeq(t, 1, n) = TypeText(type)
        /\ t[n + 1] = "_"
        /\ \A i \in (n + 2)..Len(t) : t[i] \in HexChar

\* C13: every text generateToken has returned, from the cache, from the
\* store or newly created, is TYPE_ followed by exactly 8 characters of
\* 0-9, a-f with TYPE one of NAME, EMAIL, PHONE
C13_TokenFormat ==
  /\ \A p \in issued : WellFormedToken(p[2])
  /\ \A r \in Slots : reqs[r].ret # <<>> => WellFormedToken(reqs[r].ret[2])

\* generateToken has returned a mapping it found in the store
C13_Witness ==
  \E r \in Slots :
    /\ reqs[r].ret # <<>> /\ reqs[r].path = "store"
    /\ reqs[r].ret \in issued

-----------------------------------------------------------------------------
(* Name detection                                                          *)

\* "cuyo nombre es ": the prompt up to the name
NameLead == SubSeq(NamePrompt, 1, 15)

\* "maria garcia": the name of the prompt
NameOfPrompt == SubSeq(NamePrompt, 16, Len(NamePrompt))

\* C14: for "cuyo nombre es maria garcia", anonymizeMessage with
\* lenientNames true replaces exactly "maria garcia" by a NAME token, the
\* mapping holding the value "maria garcia"; with lenientNames false it
\* returns the input as it is and creates no mapping
C14_LenientNamePrompt ==
  \A r \in Slots :
    LET q == reqs[r]
    IN  /\ q.kind = "secure" /\ q.input = NamePrompt /\ q.sent # <<>> =>
              /\ Len(q.sent[1]) > Len(NameLead)
              /\ SubSeq(q.sent[1], 1, Len(NameLead)) = NameLead
              /\ LET token == SubSeq(q.sent[1], Len(NameLead) + 1, Len(q.sent[1]))
                 IN  /\ WellFormedToken(token)
                     /\ getTokenType(token) = TypeText("NAME")
                     /\ <<NameOfPrompt, token>> \in issued
        /\ q.kind = "anonymize" /\ q.input = NamePrompt /\ q.pc = "done" =>
              /\ q.text = NamePrompt
              /\ q.ret = <<>>
              /\ q.known = {}

\* "Su email es ": the message up to the email
PossessiveLead == SubSeq(PossessiveMessage, 1, 12)

\* The text anonymizeMessage made of the message of a request: the answer
\* of /anonymize, the text /secureChatGPT sent to the provider
Anonymized(q) == IF q.kind = "secure" THEN q.sent[1] ELSE q.text

\* anonymizeMessage has returned in the request
AnonymizeReturned(q) ==
  \/ q.kind = "anonymize" /\ q.pc = "done"
  \/ q.kind = "secure" /\ q.sent # <<>>

\* C15: no word of commonWords and no match shorter than 3 characters is
\* ever tokenized as a NAME, with lenientNames false or true; of
\* "Su email es test@test.com" only the email is replaced: the result is
\* "Su email es " and one EMAIL token
C15_CommonWordsNotNames ==
  /\ \A p \in issued :
        getTokenType(p[2]) = TypeText("NAME") =>
          /\ p[1] \notin commonWords
          /\ Len(p[1]) >= NameMinLength
  /\ \A r \in Slots :
        LET q == reqs[r]
        IN  q.input = PossessiveMessage /\ AnonymizeReturned(q) =>
              /\ Len(Anonymized(q)) > Len(PossessiveLead)
              /\ SubSeq(Anonymized(q), 1, Len(PossessiveLead)) = PossessiveLead
              /\ LET token == SubSeq(Anonymized(q), Len(PossessiveLead) + 1,
                                     Len(Anonymized(q)))
                 IN  /\ WellFormedToken(token)
                     /\ getTokenType(token) = TypeText("EMAIL")

\* "Su email es test@test.com" anonymized with lenientNames true by
\* /secureChatGPT
C15_Witness ==
  \E r \in Slots :
    /\ reqs[r].kind = "secure" /\ reqs[r].input = PossessiveMessage
    /\ reqs[r].lenient /\ AnonymizeReturned(reqs[r])

-----------------------------------------------------------------------------
(* Concurrent calls of generateToken                                       *)

\* A call of generateToken that has returned
Returned(q) == q.kind = "generate" /\ q.pc = "done"

\* The call met a value neither map nor store knew, and every store
\* operation it made was answered: the query, and the insert of the create
\* path
FirstEncounter(q) ==
  /\ Returned(q) /\ q.fresh /\ ~q.faulted
  /\ \/ q.path = "created" /\ q.storeOps = 2
     \/ q.path = "store" /\ q.storeOps = 1

\* Two calls for one normalized value that both missed the forward map: the
\* second began before the first filled the maps
ConcurrentFirstEncounters(a, b) ==
  /\ a # b
  /\ FirstEncounter(reqs[a]) /\ FirstEncounter(reqs[b])
  /\ NormalizeValue(reqs[a].input) = NormalizeValue(reqs[b].input)

\* The store holds one record for the value of the two calls and both maps
\* hold its token
OneMapping(a, b) ==
  LET v     == NormalizeValue(reqs[a].input)
      token == extractToken(reqs[a].ret[2])
  IN  /\ Cardinality({d \in db : d.originalValue = v}) = 1
      /\ \A d \in db : d.originalValue = v => d.token = token
      /\ v \in DOMAIN tokenCache /\ tokenCache[v] = token
      /\ token \in DOMAIN reverseTokenCache
      /\ reverseTokenCache[token].value = v

-----------------------------------------------------------------------------
(* The maps and the store                                                  *)

\* The forward map and the reverse map give the value the token and the
\* type of the document
AgreesWith(d) ==
  /\ tokenCache[d.originalValue] = d.token
  /\ d.token \in DOMAIN reverseTokenCache
  /\ reverseTokenCache[d.token].value = d.originalValue
  /\ reverseTokenCache[d.token].type = d.type

\* C17: whatever anonymize and deanonymize requests have run, one after
\* another or two at a time, through outages and restarts, every value that
\* is in the forward map and in the store has in the maps the token and the
\* type of its document
C17_CacheAgreesWithStore ==
  \A d \in db : d.originalValue \in DOMAIN tokenCache => AgreesWith(d)

\* A value is in the forward map and in the store after a restart, while two
\* requests are served and a store operation of one of them has failed
C17_Witness ==
  /\ \E d \in db : d.originalValue \in DOMAIN tokenCache
  /\ epoch > 0
  /\ \A r \in Slots : reqs[r].kind \in {"anonymize", "deanonymize"}
  /\ \E r \in Slots : reqs[r].faulted
  /\ \E r \in Slots : Active(reqs[r])

-----------------------------------------------------------------------------
(* The create path                                                         *)

\* Both maps hold the mapping of the document
InMemory(doc) ==
  /\ doc.originalValue \in DOMAIN tokenCache
  /\ tokenCache[doc.originalValue] = doc.token
  /\ doc.token \in DOMAIN reverseTokenCache
  /\ reverseTokenCache[doc.token] = [value |-> doc.originalValue, type |-> doc.type]

\* The step is a step of the request of slot r: no restart, no reconnection
StepOf(r) == reqs'[r] # reqs[r] /\ epoch' = epoch /\ conn' = conn

\* generateToken, called for a value of the forward map, returns the token of
\* the maps without a store operation
HitFromMemory(r) ==
  LET q     == reqs[r]
      v     == NormalizeValue(GenValue(Head(q.todo)))
  IN  q.pc = "gen" /\ StepOf(r) /\ v \in DOMAIN tokenCache =>
        /\ reqs'[r].path = "hit"
        /\ reqs'[r].ret[2] =
             FormatToken(reverseTokenCache[tokenCache[v]].type, tokenCache[v])
        /\ reqs'[r].pc \notin {"find", "save"}
        /\ reqs'[r].storeOps = 0
        /\ db' = db

\* deanonymizeMessage, met with a token of the reverse map, puts the value of
\* the map in its place without a store operation
ResolveFromMemory(r) ==
  LET q     == reqs[r]
      match == Head(q.todo)
      token == extractToken(match)
  IN  q.pc = "tok" /\ StepOf(r) /\ token \in DOMAIN reverseTokenCache =>
        /\ reqs'[r].text = Replace(q.text, match, reverseTokenCache[token].value)
        /\ reqs'[r].pc \notin {"findTok", "incr"}
        /\ reqs'[r].usedStore = q.usedStore
        /\ db' = db

\* C18: while the insert of the create path is pending both maps hold the
\* new mapping; a mapping of the maps stays there as long as the process
\* runs, whatever becomes of the insert; and a call of generateToken or a
\* turn of deanonymizeMessage that finds the value or the token in the maps
\* answers from them, without the store
C18_MemoryBeforeInsert ==
  /\ [](\A r \in Slots : reqs[r].pc = "save" => InMemory(reqs[r].pend))
  /\ [][/\ epoch' = epoch =>
             /\ \A v \in DOMAIN tokenCache :
                  v \in DOMAIN tokenCache' /\ tokenCache'[v] = tokenCache[v]
             /\ \A t \in DOMAIN reverseTokenCache :
                  /\ t \in DOMAIN reverseTokenCache'
                  /\ reverseTokenCache'[t] = reverseTokenCache[t]
         /\ \A r \in Slots : HitFromMemory(r) /\ ResolveFromMemory(r)]_vars

\* While the insert of one request is pending, another request has been
\* given the token of the same value by the forward map
C18_Witness ==
  \E a, b \in Slots :
    /\ a # b
    /\ reqs[a].pc = "save"
    /\ reqs[b].path = "hit" /\ reqs[b].ret # <<>>
    /\ NormalizeValue(reqs[b].ret[1]) = reqs[a].pend.originalValue
    /\ reqs[a].pend \notin db

-----------------------------------------------------------------------------
(* generateToken: the cache hit and the store hit                          *)

\* C19: a call generateToken(v, T) that finds v in the forward map, the
\* reverse map holding a type S other than T for its token, returns S_token,
\* ends without an error and without a store operation, and leaves both maps
\* and the store as they were
C19_StoredTypeWins ==
  [][\A r \in Slots :
       LET q == reqs[r]
           v == NormalizeValue(q.input)
       IN  /\ q.kind = "generate" /\ q.pc = "gen" /\ StepOf(r)
           /\ v \in DOMAIN tokenCache
           /\ reverseTokenCache[tokenCache[v]].type # q.argType
           => /\ reqs'[r].pc = "done"
              /\ reqs'[r].ret =
                   <<q.input, FormatToken(reverseTokenCache[tokenCache[v]].type,
                                          tokenCache[v])>>
              /\ getTokenType(reqs'[r].ret[2]) # TypeText(q.argType)
              /\ ~reqs'[r].usedStore /\ reqs'[r].storeOps = 0
              /\ ~reqs'[r].faulted
              /\ tokenCache' = tokenCache
              /\ reverseTokenCache' = reverseTokenCache
              /\ db' = db]_vars

\* A call has returned from the forward map a token whose type is not the
\* type it asked for
C19_Witness ==
  \E r \in Slots :
    /\ Returned(reqs[r]) /\ reqs[r].path = "hit"
    /\ getTokenType(reqs[r].ret[2]) # TypeText(reqs[r].argType)
    /\ getTokenType(reqs[r].ret[2]) \in {TypeText(t) : t \in PiiTypes}

\* C20: a call of generateToken that missed the forward map and whose store
\* query is answered with the record of the value returns the type and the
\* token of the record, puts value -> token in the forward map and
\* token -> {value, type} in the reverse map, and writes nothing to the store
C20_StoreHitFillsMaps ==
  [][\A r \in Slots :
       LET q == reqs[r]
           v == NormalizeValue(q.input)
       IN  /\ q.kind = "generate" /\ q.pc = "find" /\ StepOf(r)
           /\ findByOriginalValue(v) # {}
           /\ reqs'[r].storeOps = 1
           => \E d \in findByOriginalValue(v) :
                /\ reqs'[r].pc = "done" /\ reqs'[r].path = "store"
                /\ reqs'[r].ret = <<q.input, FormatToken(d.type, d.token)>>
                /\ v \in DOMAIN tokenCache' /\ tokenCache'[v] = d.token
                /\ d.token \in DOMAIN reverseTokenCache'
                /\ reverseTokenCache'[d.token] = [value |-> v, type |-> d.type]
                /\ db' = db]_vars

\* A call has returned the record of the store, whose type is not the type it
\* asked for, and the maps hold the record
C20_Witness ==
  \E r \in Slots : \E d \in db :
    /\ Returned(reqs[r]) /\ reqs[r].path = "store"
    /\ d.originalValue = NormalizeValue(reqs[r].input)
    /\ d.type # reqs[r].argType
    /\ reqs[r].ret[2] = FormatToken(d.type, d.token)
    /\ InMemory(d)

-----------------------------------------------------------------------------
(* Usage statistics                                                        *)

\* The request of slot r ends a lookup that missed the reverse map and
\* fetched the document: the save of incrementUsage is answered in this step
FetchedLookup(r) ==
  reqs[r].pc = "incr" /\ StepOf(r) /\ reqs'[r].storeOps = 1

\* The document of the value after the step
After(d) == CHOOSE e \in db' : e.originalValue = d.originalValue

\* C21: each lookup of deanonymizeMessage that missed the reverse map and
\* fetched the document from the store adds one to the usageCount of the
\* document, both maps holding the mapping by then; no other step, a lookup
\* served by the reverse map and every step of anonymizeMessage among them,
\* changes the usageCount or the lastUsedAt of a document
C21_UsageCounted ==
  [][\A d \in db :
       /\ \E e \in db' : e.originalValue = d.originalValue
       /\ IF \E r \in Slots : FetchedLookup(r) /\ reqs[r].pend.token = d.token
          THEN /\ After(d).usageCount = d.usageCount + 1
               /\ d.originalValue \in DOMAIN tokenCache
               /\ d.token \in DOMAIN reverseTokenCache
          ELSE /\ After(d).usageCount = d.usageCount
               /\ After(d).lastUsedAt = d.lastUsedAt]_vars

-----------------------------------------------------------------------------
(* The detection steps of anonymizeMessage                                 *)

\* The place of a type in the order of the steps
StepRank(type) == CASE type = "EMAIL" -> 1 [] type = "PHONE" -> 2 [] type = "NAME" -> 3

\* The request is in steps 1 to 3 of anonymizeMessage with generateToken
\* calls to come, the first of them for Head(q.todo)
InStrictSteps(q) == q.kind = "anonymize" /\ q.stage = "strict" /\ q.todo # <<>>

\* C22: in one call of anonymizeMessage the emails are handled first, then
\* the phones, then the names, and a name handed to generateToken is text that
\* is still in clear at that point: text that an EMAIL or PHONE token has
\* replaced is never a name candidate, so that no NAME mapping comes from a
\* fragment of a tokenized email or phone
C22_TokenizedNeverName ==
  \A r \in Slots :
    LET q == reqs[r]
    IN  InStrictSteps(q) =>
          /\ \A i, j \in 1..Len(q.todo) :
                i < j => StepRank(q.todo[i].type) <= StepRank(q.todo[j].type)
          /\ Head(q.todo).type = "NAME" => Includes(q.text, Head(q.todo).match)

\* The elements of a sequence of matches
MatchSet(ms) == {ms[i] : i \in 1..Len(ms)}

\* The PHONE token of a candidate
PhoneTokenOf(c) == FormatToken("PHONE", NewToken(NormalizeValue(c)))

AccentedName == SubSeq(AccentedNameMessage, 9, Len(AccentedNameMessage))

\* C26: when anonymizeMessage has returned in strict mode for a message with
\* a capitalized name that has accented letters, the name has been replaced
\* as one span by one NAME token, which generateToken returned for the full
\* name: the text is the words before the name followed by that token, with
\* no letter of the name left and no second token
C26_AccentedNameOneToken ==
  \A r \in Slots :
    LET q == reqs[r]
        tokens == TokenScan(q.text, 1)
    IN  (q.kind = "anonymize" /\ q.pc = "done" /\ ~q.lenient
           /\ q.message = AccentedNameMessage) =>
          /\ Len(tokens) = 1
          /\ getTokenType(tokens[1]) = TypeText("NAME")
          /\ q.text = SubSeq(AccentedNameMessage, 1, 8) \o tokens[1]
          /\ q.ret = <<AccentedName, tokens[1]>>

-----------------------------------------------------------------------------
(* Startup                                                                 *)

\* Every document of the collection is in both maps, with its token
AllLoaded ==
  \A d \in db :
    /\ d.originalValue \in DOMAIN tokenCache
    /\ tokenCache[d.originalValue] = d.token
    /\ d.token \in DOMAIN reverseTokenCache
    /\ reverseTokenCache[d.token].value = d.originalValue

\* The request has run on a process that never connected to the store
MemoryOnly(q) == conn = "never" /\ q.bodyType = "string" /\ q.pc \in {"done", "failed"}

C29_NoRequestBeforeStartupDone ==
  /\ [](server # "listening" => \A r \in Slots : reqs[r] = IdleReq)
  /\ [][(server # "listening" /\ server' = "listening")
         => server \in {"loaded", "unloaded"}]_vars
  /\ [][(server \in {"connecting", "loading"}) => (started' = started)]_vars

\* A request is under way on a server that loaded documents at its start
C29_Witness ==
  /\ epoch = 1 /\ server = "listening" /\ conn = "up" /\ db # {} /\ AllLoaded
  /\ \E r \in Slots : Active(reqs[r])

-----------------------------------------------------------------------------
(* Mappings are kept                                                       *)

\* The document is still in the collection after the step, with its value,
\* its token and its type
KeptInStore(d) ==
  \E e \in db' : /\ e.originalValue = d.originalValue
                 /\ e.token = d.token
                 /\ e.type = d.type

\* C25: no step deletes a mapping or binds it anew: the documents of the
\* collection stay, and while the process lives the keys of both maps stay,
\* every value of the forward map keeps its token and every token of the
\* reverse map keeps its value
C25_MappingsOnlyGrow ==
  [][/\ \A d \in db : KeptInStore(d)
     /\ (epoch' = epoch) =>
          /\ \A v \in DOMAIN tokenCache :
                v \in DOMAIN tokenCache' /\ tokenCache'[v] = tokenCache[v]
          /\ \A t \in DOMAIN reverseTokenCache :
                /\ t \in DOMAIN reverseTokenCache'
                /\ reverseTokenCache'[t].value = reverseTokenCache[t].value]_vars

\* Mappings were added to the ones the process started with, in the maps
\* and in the collection
C25_Witness ==
  /\ Cardinality(db) >= 3
  /\ Cardinality(DOMAIN tokenCache) >= 3
  /\ Cardinality(DOMAIN reverseTokenCache) >= 3

StoredValue == SubSeq(PlainMessage, 27, Len(PlainMessage))

\* C28: deanonymizeMessage resolves a token of the text by its eight
\* hexadecimal characters alone: when the reverse map holds them, at the
\* lookup or after the fetch from the store, TYPE_h is replaced by the value
\* of h whatever TYPE is, the type of the mapping or another
C28_ResolvedByHexAlone ==
  [][\A r \in Slots :
       LET q     == reqs[r]
           match == Head(q.todo)
           token == extractToken(match)
       IN  (/\ q.kind = "deanonymize" /\ q.pc \in {"tok", "incr"} /\ StepOf(r)
            /\ token \in DOMAIN reverseTokenCache) =>
             reqs'[r].text = Replace(q.text, match, reverseTokenCache[token].value)]_vars

\* The token of an email written as PHONE_h has been replaced by the email
C28_Witness ==
  \E r \in Slots :
    /\ reqs[r].kind = "deanonymize" /\ reqs[r].pc = "done"
    /\ reqs[r].input = OtherTypeText
    /\ reqs[r].text = StoredValue
    /\ \E d \in db : d.originalValue = StoredValue /\ d.type = "EMAIL"

-----------------------------------------------------------------------------
(* Mappings created without the store                                      *)

\* The request is a finished /anonymize whose last generateToken call created
\* its mapping in the maps alone: the store was not connected at any point of
\* the request, which sent it no operation
CreatedInMemoryOnly(q) ==
  /\ q.kind = "anonymize" /\ q.pc = "done"
  /\ q.path = "created" /\ ~q.usedStore /\ q.ret # <<>>

\* The value of that mapping
CreatedValue(q) == NormalizeValue(q.ret[1])

\* A call of generateToken for the value begins in this step
BeginsFor(s, v) ==
  /\ reqs[s].pc = "gen" /\ StepOf(s)
  /\ NormalizeValue(GenValue(Head(reqs[s].todo))) = v

\* A lookup of deanonymizeMessage for the token of the value begins in this
\* step
LooksUp(s, v) ==
  /\ reqs[s].pc = "tok" /\ StepOf(s)
  /\ extractToken(Head(reqs[s].todo)) = NewToken(v)

\* C30 as stated: a mapping created while the store was not connected, and
\* which the collection does not hold, is written to the collection by no
\* step of the same process lifetime, whatever the store does afterwards
C30_NeverWrittenLater ==
  [][\A r \in Slots :
       (/\ CreatedInMemoryOnly(reqs[r])
        /\ findByOriginalValue(CreatedValue(reqs[r])) = {}
        /\ epoch' = epoch) =>
         \A d \in db' : d.originalValue # CreatedValue(reqs[r])]_vars

\* C30, amended: once a mapping has been created while the store was not
\* connected, every call of generateToken for its value and every lookup of
\* its token that begins afterwards in the same process lifetime is served
\* from the maps, with no store operation and no change of the collection
C30_LaterCallsFromMemory ==
  [][\A r, s \in Slots :
       CreatedInMemoryOnly(reqs[r]) =>
         /\ BeginsFor(s, CreatedValue(reqs[r])) =>
               /\ reqs'[s].path = "hit"
               /\ reqs'[s].pc \notin {"find", "save"}
               /\ reqs'[s].usedStore = reqs[s].usedStore
               /\ db' = db
         /\ LooksUp(s, CreatedValue(reqs[r])) =>
               /\ reqs'[s].text # reqs[s].text
               /\ reqs'[s].pc \notin {"findTok", "incr"}
               /\ reqs'[s].usedStore = reqs[s].usedStore
               /\ db' = db]_vars

\* A second request has asked for a value whose mapping an earlier request
\* created in memory only, with the store connected again
C30_Witness ==
  \E r, s \in Slots :
    /\ r # s
    /\ CreatedInMemoryOnly(reqs[r])
    /\ conn = "up"
    /\ reqs[s].pc = "done" /\ reqs[s].path = "hit"
    /\ reqs[s].ret # <<>> /\ NormalizeValue(reqs[s].ret[1]) = CreatedValue(reqs[r])

====
